---- MODULE Spec2Model ----
(***************************************************************************)
(* DarkVM: a stack-based virtual machine.  A token sequence is loaded by   *)
(* Code::new into an indexed value sequence with a label table, and VM::run*)
(* walks it with an operand stack and a call stack of frames.              *)
(*                                                                         *)
(* Indices (value_pointer, label start/end, caller_position) are 0-based   *)
(* as in the source; the value at index i is values[i + 1].                *)
(* A string is a sequence of one-character strings, so that concatenation, *)
(* emptiness and the printed form of a number are computed, not assumed.   *)
(* Identifier and label names are only compared, and are kept as atoms.    *)
(***************************************************************************)
EXTENDS Integers, Sequences, FiniteSets, TLC

VARIABLES
    contents,       \* the text handed to Lexer::lex
    current_position, \* Lexer.current_position
    tokens,         \* the token sequence handed to VM::new
    values,         \* Code.values
    labels,         \* Code.labels: name -> [start_pos, end_pos]
    value_pointer,  \* Code.value_pointer
    operand_stack,  \* VM.operand_stack (Vec: last element = most recent push)
    call_stack,     \* VM.call_stack (Vec of frames)
    output,         \* what print / printn wrote to stdout, in order
    status,         \* "running", "done" (run returned Ok), "error" (Err), "crashed" (panic)
    error,          \* the Error returned by VM::new or VM::run
    result,         \* the Option<value> returned by run
    last            \* record of the last dispatch of the run loop (history)

vars == <<contents, current_position,
          tokens, values, labels, value_pointer, operand_stack, call_stack,
          output, status, error, result, last>>

(***************************************************************************)
(* Bounds of the model.                                                    *)
(***************************************************************************)
MaxPushes == 2      \* literal pushes in front of the instruction under test
MaxStack  == 4      \* operand stack depth explored
MaxFrames == 3      \* call stack depth explored
MaxOutput == 2      \* printed items explored
MaxDepth  == 6      \* nesting of evaluate_value explored (recursion depth)
MaxInt    == 12     \* magnitude of the integers explored
MaxStrLen == 4      \* length of the strings explored
MaxStores  == 2
MaxTokens  == 6

(***************************************************************************)
(* Values and tokens.                                                      *)
(***************************************************************************)
\* Option::None for a value
NoValue == [kind |-> "None", n |-> 0, e |-> 0, b |-> FALSE, s |-> <<>>, name |-> "", pos |-> 0]

\* Value::new(pos, kind)
ValueNew(pos, kind, n, b, s, name) ==
    [kind |-> kind, n |-> n, e |-> 0, b |-> b, s |-> s, name |-> name, pos |-> pos]

IntValue(pos, n)     == ValueNew(pos, "Int", n, FALSE, <<>>, "")
BooleanValue(pos, b) == ValueNew(pos, "Boolean", 0, b, <<>>, "")
StringValue(pos, s)  == ValueNew(pos, "String", 0, FALSE, s, "")
VoidValue(pos)       == ValueNew(pos, "Void", 0, FALSE, <<>>, "")

(***************************************************************************)
(* f64.  A Float is kept as the pair (n, e) that stands for n * 2^e, with  *)
(* n odd, or n = 0 and e = 0; e = 1024 stands for the infinities (n = 1,   *)
(* n = -1) and NaN (n = 0), as the exponent field of f64 does.  Every      *)
(* finite f64 has this form, and the operations below give the f64 result  *)
(* exactly; the sign of a zero is not kept.                                *)
(***************************************************************************)
RECURSIVE Canon(_, _)
Canon(n, e) ==
    IF n = 0 THEN <<0, 0>>
    ELSE IF n % 2 = 0 THEN Canon(n \div 2, e + 1)
    ELSE <<n, e>>

FloatValue(pos, n, e) ==
    [ValueNew(pos, "Float", Canon(n, e)[1], FALSE, <<>>, "") EXCEPT !.e = Canon(n, e)[2]]

FloatInf(pos, sign) == [ValueNew(pos, "Float", sign, FALSE, <<>>, "") EXCEPT !.e = 1024]

FloatNaN(pos) == [ValueNew(pos, "Float", 0, FALSE, <<>>, "") EXCEPT !.e = 1024]

IsFinite(x) == x.e < 1024

\* `as f64` of an i64 (exact below 2^53)
IntAsFloat(v) == FloatValue(v.pos, v.n, 0)

\* std::f64::EPSILON = 2^-52
Epsilon == FloatValue(0, 1, -52)

\* the position of the leading bit of n >= 1
RECURSIVE Log2(_)
Log2(n) == IF n < 2 THEN 0 ELSE 1 + Log2(n \div 2)

Magnitude(n) == IF n < 0 THEN -n ELSE n

\* the binary order of magnitude of a finite non-zero float
Order(x) == Log2(Magnitude(x.n)) + x.e

\* |x| < |y| for finite non-zero x and y
MagnitudeLess(x, y) ==
    IF Order(x) # Order(y) THEN Order(x) < Order(y)
    ELSE LET low == IF x.e < y.e THEN x.e ELSE y.e
         IN  Magnitude(x.n) * 2^(x.e - low) < Magnitude(y.n) * 2^(y.e - low)

\* f64 `<` (false when an operand is NaN)
FloatLess(x, y) ==
    IF ~IsFinite(x) \/ ~IsFinite(y)
    THEN /\ ~(x.e = 1024 /\ x.n = 0) /\ ~(y.e = 1024 /\ y.n = 0)
         /\ \/ x.e = 1024 /\ x.n = -1 /\ ~(y.e = 1024 /\ y.n = -1)
            \/ y.e = 1024 /\ y.n = 1 /\ ~(x.e = 1024 /\ x.n = 1)
    ELSE IF x.n < 0 /\ y.n >= 0 THEN TRUE
    ELSE IF x.n = 0 THEN y.n > 0
    ELSE IF x.n > 0 /\ y.n <= 0 THEN FALSE
    ELSE IF y.n = 0 THEN x.n < 0
    ELSE IF x.n > 0 THEN MagnitudeLess(x, y)
    ELSE MagnitudeLess(y, x)

FloatNeg(x) == [x EXCEPT !.n = -x.n]

\* f64::abs
FloatAbs(x) == [x EXCEPT !.n = Magnitude(x.n)]

\* f64 `+` of finite operands: an operand below half a unit in the last place of
\* the other is absorbed; otherwise the sum, which is exact while its odd part
\* stays below 2^53 (as every sum that 32-bit evaluation can form does)
FloatAdd(x, y, pos) ==
    IF x.n = 0 THEN [y EXCEPT !.pos = pos]
    ELSE IF y.n = 0 THEN [x EXCEPT !.pos = pos]
    ELSE IF Order(x) - Order(y) >= 54 THEN [x EXCEPT !.pos = pos]
    ELSE IF Order(y) - Order(x) >= 54 THEN [y EXCEPT !.pos = pos]
    ELSE LET low == IF x.e < y.e THEN x.e ELSE y.e
         IN  FloatValue(pos, x.n * 2^(x.e - low) + y.n * 2^(y.e - low), low)

FloatSub(x, y, pos) == FloatAdd(x, FloatNeg(y), pos)

\* f64 `*` of finite operands (exact: the product of the odd parts is below 2^53)
FloatMul(x, y, pos) == FloatValue(pos, x.n * y.n, x.e + y.e)

\* f64 `/` of finite operands: x / 0 is an infinity or NaN; the quotient is exact
\* when the odd part of the divisor divides that of the dividend, and is otherwise
\* the nearest float with a 53-bit odd part
FloatDiv(x, y, pos) ==
    IF y.n = 0
    THEN IF x.n = 0 THEN FloatNaN(pos) ELSE FloatInf(pos, IF x.n > 0 THEN 1 ELSE -1)
    ELSE IF Magnitude(x.n) % Magnitude(y.n) = 0
    THEN FloatValue(pos, (IF (x.n < 0) = (y.n < 0) THEN 1 ELSE -1)
                         * (Magnitude(x.n) \div Magnitude(y.n)), x.e - y.e)
    ELSE LET den   == Magnitude(y.n)
             least == 52 + Log2(den) - Log2(Magnitude(x.n))
             shift == IF Magnitude(x.n) * 2^least >= den * 2^52 THEN least ELSE least + 1
             num   == Magnitude(x.n) * 2^shift
             m     == CHOOSE q \in {num \div den, num \div den + 1} :
                          \A r \in {num \div den, num \div den + 1} :
                              Magnitude(q * den - num) <= Magnitude(r * den - num)
         IN  FloatValue(pos, (IF (x.n < 0) = (y.n < 0) THEN 1 ELSE -1) * m,
                        x.e - y.e - shift)

\* f64::is_normal: neither zero, subnormal, infinite nor NaN
IsNormal(x) == IsFinite(x) /\ x.n # 0 /\ Order(x) >= -1022

\* impl From<Token> for Value: the kind projection
ValueKindOf(token_kind) ==
    CASE token_kind = "IntegerLiteral" -> "Int"
      [] token_kind = "FloatLiteral"   -> "Float"
      [] token_kind = "BooleanLiteral" -> "Boolean"
      [] token_kind = "StringLiteral"  -> "String"
      [] OTHER -> token_kind

ValueFromToken(token) == [token EXCEPT !.kind = ValueKindOf(token.kind)]

\* Errors: Error::new(kind, pos); Error::message_only(kind) has no position (-1)
NoError == [kind |-> "None", pos |-> -1, n |-> 0, m |-> 0, expected |-> "", actual |-> ""]

ErrorNew(kind, pos) == [NoError EXCEPT !.kind = kind, !.pos = pos]

MessageOnly(kind) == [NoError EXCEPT !.kind = kind]

ExpectedArgs(n, pos) == [NoError EXCEPT !.kind = "ExpectedArgs", !.pos = pos, !.n = n]

ValueMismatch(expected, actual, pos) ==
    [NoError EXCEPT !.kind = "ValueMismatch", !.pos = pos,
                    !.expected = expected, !.actual = actual]

OutOfBounds(lo, hi, pos) ==
    [NoError EXCEPT !.kind = "OutOfBounds", !.pos = pos, !.n = lo, !.m = hi]

\* an abort of the process: unwrap of None, or exhaustion of the native stack
Panic(what) == [NoError EXCEPT !.kind = what]

(***************************************************************************)
(* Printed forms (fmt::Debug of Value, i64 Display).                       *)
(***************************************************************************)
Digit(d) ==
    CASE d = 0 -> "0" [] d = 1 -> "1" [] d = 2 -> "2" [] d = 3 -> "3" [] d = 4 -> "4"
      [] d = 5 -> "5" [] d = 6 -> "6" [] d = 7 -> "7" [] d = 8 -> "8" [] d = 9 -> "9"

RECURSIVE NatToStr(_)
NatToStr(n) == IF n < 10 THEN <<Digit(n)>> ELSE Append(NatToStr(n \div 10), Digit(n % 10))

IntToStr(n) == IF n < 0 THEN <<"-">> \o NatToStr(-n) ELSE NatToStr(n)

\* TokenKind::is_instruction: the mnemonic of each instruction
Mnemonic(kind) ==
    CASE kind = "Push" -> "push" [] kind = "Pop" -> "pop" [] kind = "Peek" -> "peek"
      [] kind = "Add" -> "add" [] kind = "Sub" -> "sub" [] kind = "Mul" -> "mul"
      [] kind = "Div" -> "div" [] kind = "LessThan" -> "lt" [] kind = "LessThanEqual" -> "lte"
      [] kind = "GreaterThan" -> "gt" [] kind = "GreaterThanEqual" -> "gte"
      [] kind = "Equal" -> "eq" [] kind = "NotEqual" -> "neq" [] kind = "Jump" -> "jmp"
      [] kind = "RelativeJump" -> "rjmp" [] kind = "JumpIfTrue" -> "jmpt"
      [] kind = "JumpIfFalse" -> "jmpf" [] kind = "Print" -> "print"
      [] kind = "PrintNewLine" -> "printn" [] kind = "Set" -> "set" [] kind = "Call" -> "call"
      [] kind = "End" -> "end" [] kind = "Void" -> "void" [] kind = "Any" -> "any"

\* the decimal digits of n, with zeros in front up to the given width
RECURSIVE Padded(_, _)
Padded(n, width) ==
    IF width = 0 THEN <<>> ELSE Append(Padded(n \div 10, width - 1), Digit(n % 10))

\* Display of an f64: the shortest decimal that reads back as the same float, which
\* for n * 2^e of at most 15 significant digits is its exact decimal expansion
ShowFloat(x) ==
    IF ~IsFinite(x)
    THEN IF x.n = 0 THEN <<"N","a","N">>
         ELSE IF x.n > 0 THEN <<"i","n","f">> ELSE <<"-","i","n","f">>
    ELSE IF x.e >= 0 THEN IntToStr(x.n * 2^x.e)
    ELSE LET scaled == Magnitude(x.n) * 5^(-x.e)
         IN  (IF x.n < 0 THEN <<"-">> ELSE <<>>)
             \o NatToStr(scaled \div 10^(-x.e)) \o <<".">>
             \o Padded(scaled % 10^(-x.e), -x.e)

\* the printed form that a derived Debug would give: an Int n is written Int(n)
ShowDerived(value) ==
    CASE value.kind = "Int"     -> <<"I","n","t","(">> \o IntToStr(value.n) \o <<")">>
      [] value.kind = "Float"   -> ShowFloat(value)
      [] value.kind = "Boolean" -> IF value.b THEN <<"t","r","u","e">> ELSE <<"f","a","l","s","e">>
      [] value.kind = "String"  -> value.s
      [] value.kind = "Void"    -> <<"V","o","i","d">>
      [] value.kind = "Any"     -> <<"A","n","y">>
      [] value.kind = "End"     -> <<"E","n","d">>
      [] value.kind = "Identifier" -> <<"Identifier '", value.name, "'">>
      [] value.kind = "Label"   -> <<"Label '", value.name, "' => []">>
      [] OTHER                  -> <<"<instruction ", Mnemonic(value.kind), ">">>

\* format!("{:#?}", value); the name of an identifier or label and the mnemonic of an
\* instruction are written as one element of the sequence
Show(value) ==
    CASE value.kind = "Int"     -> IntToStr(value.n)
      [] value.kind = "Float"   -> ShowFloat(value)
      [] value.kind = "Boolean" -> IF value.b THEN <<"t","r","u","e">> ELSE <<"f","a","l","s","e">>
      [] value.kind = "String"  -> value.s
      [] value.kind = "Void"    -> <<"V","o","i","d">>
      [] value.kind = "Any"     -> <<"A","n","y">>
      [] value.kind = "End"     -> <<"E","n","d">>
      [] value.kind = "Identifier" -> <<"Identifier '", value.name, "'">>
      [] value.kind = "Label"   -> <<"Label '", value.name, "' => []">>
      [] OTHER                  -> <<"<instruction ", Mnemonic(value.kind), ">">>

\* ValueKind::get_value_name
GetValueName(kind) ==
    IF kind \in {"Void", "Any", "Int", "Float", "Boolean", "String", "Identifier", "Label", "End"}
    THEN kind ELSE "Instruction"

(***************************************************************************)
(* Code::new: the loader.                                                  *)
(***************************************************************************)
\* Label::new called with its two indices exchanged
LabelNewSwapped(start_pos, end_pos) == [start_pos |-> end_pos, end_pos |-> start_pos]

\* Label::new(start_pos, end_pos, parameters); parameters are never consumed
LabelNew(start_pos, end_pos) == [start_pos |-> start_pos, end_pos |-> end_pos]

\* HashMap::insert
MapInsert(map, key, v) == [k \in DOMAIN map \cup {key} |-> IF k = key THEN v ELSE map[k]]

EmptyMap == [k \in {} |-> 0]

\* the loop of Code::new that passes over an End met while no label is pending
RECURSIVE LoadTokensSkipsEnd(_, _, _, _)
LoadTokensSkipsEnd(toks, i, labs, label_stack) ==
    IF i = Len(toks)
    THEN [err |-> NoError, labels |-> labs, label_stack |-> label_stack]
    ELSE LET token == toks[i + 1] IN
         IF token.kind = "Label"
         THEN LoadTokensSkipsEnd(toks, i + 1, labs,
                         Append(label_stack, [start |-> i, pos |-> token.pos, name |-> token.name]))
         ELSE IF token.kind = "End" /\ label_stack # <<>>
         THEN LET popped == label_stack[Len(label_stack)]
                  rest   == SubSeq(label_stack, 1, Len(label_stack) - 1)
              IN  IF popped.name \in DOMAIN labs
                  THEN [err |-> ErrorNew("DuplicateLabel", popped.pos),
                        labels |-> MapInsert(labs, popped.name, LabelNew(popped.start, i)),
                        label_stack |-> rest]
                  ELSE LoadTokensSkipsEnd(toks, i + 1,
                                  MapInsert(labs, popped.name, LabelNew(popped.start, i)), rest)
         ELSE LoadTokensSkipsEnd(toks, i + 1, labs, label_stack)

\* the loop of Code::new that inserts into the label table without looking at what
\* HashMap::insert returns
RECURSIVE LoadTokensOverwrites(_, _, _, _)
LoadTokensOverwrites(toks, i, labs, label_stack) ==
    IF i = Len(toks)
    THEN [err |-> NoError, labels |-> labs, label_stack |-> label_stack]
    ELSE LET token == toks[i + 1] IN
         IF token.kind = "Label"
         THEN LoadTokensOverwrites(toks, i + 1, labs,
                         Append(label_stack, [start |-> i, pos |-> token.pos, name |-> token.name]))
         ELSE IF token.kind = "End"
         THEN IF label_stack = <<>>
              THEN [err |-> ErrorNew("EndWithoutLabel", token.pos),
                    labels |-> labs, label_stack |-> label_stack]
              ELSE LET popped == label_stack[Len(label_stack)]
                       rest   == SubSeq(label_stack, 1, Len(label_stack) - 1)
                   IN  LoadTokensOverwrites(toks, i + 1,
                                   MapInsert(labs, popped.name, LabelNew(popped.start, i)), rest)
         ELSE LoadTokensOverwrites(toks, i + 1, labs, label_stack)

\* the for loop of Code::new over tokens.into_iter().enumerate(), from index i
RECURSIVE LoadTokens(_, _, _, _)
LoadTokens(toks, i, labs, label_stack) ==
    IF i = Len(toks)
    THEN [err |-> NoError, labels |-> labs, label_stack |-> label_stack]
    ELSE LET token == toks[i + 1] IN
         IF token.kind = "Label"
         THEN LoadTokens(toks, i + 1, labs,
                         Append(label_stack, [start |-> i, pos |-> token.pos, name |-> token.name]))
         ELSE IF token.kind = "End"
         THEN IF label_stack = <<>>
              THEN [err |-> ErrorNew("EndWithoutLabel", token.pos),
                    labels |-> labs, label_stack |-> label_stack]
              ELSE LET popped == label_stack[Len(label_stack)]
                       rest   == SubSeq(label_stack, 1, Len(label_stack) - 1)
                   IN  IF popped.name \in DOMAIN labs
                       THEN [err |-> ErrorNew("DuplicateLabel", popped.pos),
                             labels |-> MapInsert(labs, popped.name, LabelNew(popped.start, i)),
                             label_stack |-> rest]
                       ELSE LoadTokens(toks, i + 1,
                                       MapInsert(labs, popped.name, LabelNew(popped.start, i)), rest)
         ELSE LoadTokens(toks, i + 1, labs, label_stack)

\* Code::new that looks up main before it looks at the labels left pending
CodeNewMainFirst(toks) ==
    LET loaded == LoadTokens(toks, 0, EmptyMap, <<>>)
        vals   == [i \in 1..Len(toks) |-> ValueFromToken(toks[i])]
        fail(e) == [err |-> e, value_pointer |-> 0, values |-> vals, labels |-> loaded.labels]
    IN  IF loaded.err # NoError THEN fail(loaded.err)
        ELSE IF "main" \notin DOMAIN loaded.labels
        THEN fail(MessageOnly("NoMainLabel"))
        ELSE IF loaded.label_stack # <<>>
        THEN fail(ErrorNew("NoEndOfLabel", loaded.label_stack[Len(loaded.label_stack)].pos))
        ELSE [err |-> NoError, value_pointer |-> loaded.labels["main"].start_pos + 1,
              values |-> vals, labels |-> loaded.labels]

\* Code::new
CodeNew(toks) ==
    LET loaded == LoadTokens(toks, 0, EmptyMap, <<>>)
        vals   == [i \in 1..Len(toks) |-> ValueFromToken(toks[i])]
        fail(e) == [err |-> e, value_pointer |-> 0, values |-> vals, labels |-> loaded.labels]
    IN  IF loaded.err # NoError THEN fail(loaded.err)
        ELSE IF loaded.label_stack # <<>>
        THEN fail(ErrorNew("NoEndOfLabel", loaded.label_stack[Len(loaded.label_stack)].pos))
        ELSE IF "main" \in DOMAIN loaded.labels
        THEN [err |-> NoError, value_pointer |-> loaded.labels["main"].start_pos + 1,
              values |-> vals, labels |-> loaded.labels]
        ELSE fail(MessageOnly("NoMainLabel"))

\* Code::repl: the same loop, no test of the labels left pending, no lookup of main
CodeRepl(toks) ==
    LET loaded == LoadTokens(toks, 0, EmptyMap, <<>>)
        vals   == [i \in 1..Len(toks) |-> ValueFromToken(toks[i])]
    IN  [err |-> loaded.err, value_pointer |-> 0, values |-> vals, labels |-> loaded.labels]

(***************************************************************************)
(* Value arithmetic, comparison and truthiness (values/value.rs).          *)
(* Int payloads stay far below the i64 range (see IntsBounded), so i64     *)
(* arithmetic is exact here.                                               *)
(***************************************************************************)
ValOk(v)   == [val |-> v, err |-> NoError]

ValErr(e)  == [val |-> NoValue, err |-> e]

UnsupportedOperation(op, pos) == ErrorNew("UnsupportedOperation", pos)

\* Value::add that adds an Int to itself, val1 + val1
ValueAddLeftTwice(self, other, pos) ==
    CASE self.kind = "String" /\ other.kind = "String" -> ValOk(StringValue(pos, self.s \o other.s))
      [] self.kind # "String" /\ other.kind = "String" /\ self.kind # "Void"
            -> ValOk(StringValue(pos, Show(self) \o other.s))
      [] self.kind = "String" /\ other.kind # "String" /\ other.kind # "Void"
            -> ValOk(StringValue(pos, self.s \o Show(other)))
      [] self.kind = "Int" /\ other.kind = "Int"
            -> ValOk(IntValue(pos, self.n + self.n))
      [] self.kind = "Int" /\ other.kind = "Float" -> ValOk(FloatAdd(IntAsFloat(self), other, pos))
      [] self.kind = "Float" /\ other.kind = "Int" -> ValOk(FloatAdd(self, IntAsFloat(other), pos))
      [] self.kind = "Float" /\ other.kind = "Float" -> ValOk(FloatAdd(self, other, pos))
      [] OTHER -> ValErr(UnsupportedOperation("Add", pos))

\* Value::add
ValueAdd(self, other, pos) ==
    CASE self.kind = "String" /\ other.kind = "String" -> ValOk(StringValue(pos, self.s \o other.s))
      [] self.kind # "String" /\ other.kind = "String" /\ self.kind # "Void"
            -> ValOk(StringValue(pos, Show(self) \o other.s))
      [] self.kind = "String" /\ other.kind # "String" /\ other.kind # "Void"
            -> ValOk(StringValue(pos, self.s \o Show(other)))
      [] self.kind = "Int" /\ other.kind = "Int" -> ValOk(IntValue(pos, self.n + other.n))
      [] self.kind = "Int" /\ other.kind = "Float" -> ValOk(FloatAdd(IntAsFloat(self), other, pos))
      [] self.kind = "Float" /\ other.kind = "Int" -> ValOk(FloatAdd(self, IntAsFloat(other), pos))
      [] self.kind = "Float" /\ other.kind = "Float" -> ValOk(FloatAdd(self, other, pos))
      [] OTHER -> ValErr(UnsupportedOperation("Add", pos))

\* Value::sub
ValueSub(self, other, pos) ==
    CASE self.kind = "Int" /\ other.kind = "Int" -> ValOk(IntValue(pos, self.n - other.n))
      [] self.kind = "Int" /\ other.kind = "Float" -> ValOk(FloatSub(IntAsFloat(self), other, pos))
      [] self.kind = "Float" /\ other.kind = "Int" -> ValOk(FloatSub(self, IntAsFloat(other), pos))
      [] self.kind = "Float" /\ other.kind = "Float" -> ValOk(FloatSub(self, other, pos))
      [] OTHER -> ValErr(UnsupportedOperation("Sub", pos))

Abs(n) == IF n < 0 THEN -n ELSE n

\* str::repeat
RECURSIVE Repeat(_, _)
Repeat(s, count) == IF count = 0 THEN <<>> ELSE s \o Repeat(s, count - 1)

\* Value::mul
ValueMul(self, other, pos) ==
    CASE self.kind = "String" /\ other.kind = "Int"
            -> ValOk(StringValue(pos, Repeat(self.s, Abs(other.n))))
      [] self.kind = "Int" /\ other.kind = "String"
            -> ValOk(StringValue(pos, Repeat(other.s, Abs(self.n))))
      [] self.kind = "Int" /\ other.kind = "Int" -> ValOk(IntValue(pos, self.n * other.n))
      [] self.kind = "Int" /\ other.kind = "Float" -> ValOk(FloatMul(IntAsFloat(self), other, pos))
      [] self.kind = "Float" /\ other.kind = "Int" -> ValOk(FloatMul(self, IntAsFloat(other), pos))
      [] self.kind = "Float" /\ other.kind = "Float" -> ValOk(FloatMul(self, other, pos))
      [] OTHER -> ValErr(UnsupportedOperation("Mul", pos))

\* i64 `/`: the quotient truncated toward zero
TruncDiv(a, b) ==
    IF (a < 0) = (b < 0) THEN Abs(a) \div Abs(b) ELSE -(Abs(a) \div Abs(b))

\* Value::div: `val - 0.0 < EPSILON` is a signed test, and for (Float, Int) it is
\* made on val1, the dividend
ValueDiv(self, other, pos) ==
    CASE self.kind = "Int" /\ other.kind = "Int"
            -> IF other.n = 0 THEN ValErr(ErrorNew("DivisionByZero", pos))
               ELSE ValOk(IntValue(pos, TruncDiv(self.n, other.n)))
      [] self.kind = "Int" /\ other.kind = "Float"
            -> IF FloatLess(other, Epsilon) THEN ValErr(ErrorNew("DivisionByZero", pos))
               ELSE ValOk(FloatDiv(IntAsFloat(self), other, pos))
      [] self.kind = "Float" /\ other.kind = "Int"
            -> IF FloatLess(self, Epsilon) THEN ValErr(ErrorNew("DivisionByZero", pos))
               ELSE ValOk(FloatDiv(self, IntAsFloat(other), pos))
      [] self.kind = "Float" /\ other.kind = "Float"
            -> IF FloatLess(other, Epsilon) THEN ValErr(ErrorNew("DivisionByZero", pos))
               ELSE ValOk(FloatDiv(self, other, pos))
      [] OTHER -> ValErr(UnsupportedOperation("Div", pos))

\* the order of the characters used by the model's strings (their code points)
CharOrder == <<" ", "-", "0", "1", "2", "3", "4", "5", "6", "7", "8", "9", "a", "b", "e", "f", "l", "r", "s", "t", "u">>

CharCode(c) == CHOOSE i \in 1..Len(CharOrder) : CharOrder[i] = c

\* String `<`: lexicographic order
RECURSIVE StrLess(_, _)
StrLess(a, b) ==
    IF b = <<>> THEN FALSE
    ELSE IF a = <<>> THEN TRUE
    ELSE IF Head(a) = Head(b) THEN StrLess(Tail(a), Tail(b))
    ELSE CharCode(Head(a)) < CharCode(Head(b))

\* Value::lt, lte, gt, gte
ValueCompare(op, self, other, pos) ==
    LET less(x, y) == CASE self.kind = "Int" -> x.n < y.n
                        [] self.kind = "Float" -> FloatLess(x, y)
                        [] OTHER -> StrLess(x.s, y.s)
        same(x, y) == CASE self.kind = "Int" -> x.n = y.n
                        [] self.kind = "Float" ->
                               (IsFinite(x) \/ x.n # 0) /\ x.n = y.n /\ x.e = y.e
                        [] OTHER -> x.s = y.s
    IN  IF self.kind = other.kind /\ self.kind \in {"Int", "Float", "String"}
        THEN ValOk(BooleanValue(pos,
                CASE op = "LessThan"         -> less(self, other)
                  [] op = "LessThanEqual"    -> less(self, other) \/ same(self, other)
                  [] op = "GreaterThan"      -> less(other, self)
                  [] op = "GreaterThanEqual" -> less(other, self) \/ same(self, other)))
        ELSE ValErr(UnsupportedOperation(op, pos))

\* Value::equal that holds two values of one kind without payload to be equal
ValueEqualSameKind(self, other, pos) ==
    BooleanValue(pos,
        CASE self.kind = "Int" /\ other.kind = "Int"         -> self.n = other.n
          [] self.kind = "Float" /\ other.kind = "Float"
                -> FloatLess(FloatAbs(FloatSub(self, other, pos)), Epsilon)
          [] self.kind = "Boolean" /\ other.kind = "Boolean" -> self.b = other.b
          [] self.kind = "String" /\ other.kind = "String"   -> self.s = other.s
          [] OTHER -> self.kind = other.kind)

\* Value::equal
ValueEqual(self, other, pos) ==
    BooleanValue(pos,
        CASE self.kind = "Int" /\ other.kind = "Int"         -> self.n = other.n
          [] self.kind = "Float" /\ other.kind = "Float"
                -> FloatLess(FloatAbs(FloatSub(self, other, pos)), Epsilon)
          [] self.kind = "Boolean" /\ other.kind = "Boolean" -> self.b = other.b
          [] self.kind = "String" /\ other.kind = "String"   -> self.s = other.s
          [] OTHER -> FALSE)

\* Value::not_equal
ValueNotEqual(self, other, pos) ==
    BooleanValue(pos,
        CASE self.kind = "Int" /\ other.kind = "Int"         -> self.n # other.n
          [] self.kind = "Float" /\ other.kind = "Float"
                -> FloatLess(Epsilon, FloatAbs(FloatSub(self, other, pos)))
          [] self.kind = "Boolean" /\ other.kind = "Boolean" -> self.b # other.b
          [] self.kind = "String" /\ other.kind = "String"   -> self.s # other.s
          [] OTHER -> TRUE)

\* Value::is_truthy
IsTruthy(value) ==
    CASE value.kind = "Int"     -> value.n # 0
      [] value.kind = "Float"   -> IsNormal(value)
      [] value.kind = "Boolean" -> value.b
      [] value.kind = "String"  -> value.s # <<>>
      [] OTHER -> FALSE

(***************************************************************************)
(* Stack, Store, Frame (utils).                                            *)
(***************************************************************************)
\* Stack::push
StackPush(stack, value) == Append(stack, value)

\* Stack::pop: Vec::pop, the last element
StackPop(stack, pos) ==
    IF stack = <<>>
    THEN [stack |-> stack, idx |-> 0, err |-> ErrorNew("EmptyStack", pos)]
    ELSE [stack |-> SubSeq(stack, 1, Len(stack) - 1), idx |-> Len(stack), err |-> NoError]

\* Stack::peek / Stack::peek_mut: the index (in the model's sequence) of the element
\* that self.0.first() designates, 0 for None
StackPeek(stack) == IF stack = <<>> THEN 0 ELSE 1

\* Stack::is_empty
StackIsEmpty(stack) == stack = <<>>

\* Frame::new: a fresh store whose parent is the store of the frame at index
\* `parent` of the call stack (0: no parent).  A store is shared by reference, and the
\* frame owning the parent store is below the new frame for as long as that one lives.
FrameNew(caller_position, name, parent) ==
    [caller_position |-> caller_position, name |-> name, parent |-> parent, store |-> EmptyMap]

\* Store::define (through Frame::define)
StoreDefine(frame, name, value) == [frame EXCEPT !.store = MapInsert(@, name, value)]

\* Store::get that never asks the parent store
StoreGetLocal(cs, idx, name, pos) ==
    IF name \in DOMAIN cs[idx].store THEN ValOk(cs[idx].store[name])
    ELSE ValErr(ErrorNew("UndefinedVariable", pos))

\* Store::get (through Frame::find), on the store of frame idx of the call stack cs
RECURSIVE StoreGet(_, _, _, _)
StoreGet(cs, idx, name, pos) ==
    IF name \in DOMAIN cs[idx].store THEN ValOk(cs[idx].store[name])
    ELSE IF cs[idx].parent # 0 THEN StoreGet(cs, cs[idx].parent, name, pos)
    ELSE ValErr(ErrorNew("UndefinedVariable", pos))

(***************************************************************************)
(* The VM (vm.rs).  A vm record is the mutable state of the VM struct:     *)
(* [value_pointer, operand_stack, call_stack, output].  An instruction     *)
(* yields [vm, res, err, apos]: the state it leaves, the Option<value> it  *)
(* returns (NoValue for None), the error it returns (NoError for Ok) and,  *)
(* for get_arg, the position of the argument read.  `depth` is the number  *)
(* of nested evaluate_value calls the native stack still has room for.     *)
(***************************************************************************)
Ok(vm, res) == [vm |-> vm, res |-> res, err |-> NoError, apos |-> 0]

Err(vm, e)  == [vm |-> vm, res |-> NoValue, err |-> e, apos |-> 0]

\* Code::is_finished || call_stack.is_empty()
IsFinished(vm) == vm.value_pointer >= Len(values) \/ StackIsEmpty(vm.call_stack)

\* Iterator::next that returns the value at the pointer and leaves the pointer there
CodeNextStays(vm) ==
    [vm  |-> vm,
     val |-> IF vm.value_pointer < Len(values) THEN values[vm.value_pointer + 1] ELSE NoValue]

\* Iterator::next for Code: the pointer moves even when nothing is left
CodeNext(vm) ==
    [vm  |-> [vm EXCEPT !.value_pointer = @ + 1],
     val |-> IF vm.value_pointer < Len(values) THEN values[vm.value_pointer + 1] ELSE NoValue]

\* Code::jump with the upper bound excluded, as the comment of VM::jmp words it
CodeJumpExclusive(vm, jump_location, pos) ==
    LET upper_bound == Len(values)
    IN  IF jump_location >= 0 /\ jump_location < upper_bound
        THEN Ok([vm EXCEPT !.value_pointer = jump_location], NoValue)
        ELSE Err(vm, OutOfBounds(0, Len(values) + 1, pos))

\* Code::jump
CodeJump(vm, jump_location, pos) ==
    LET upper_bound == Len(values)
    IN  IF jump_location >= 0 /\ jump_location <= upper_bound
        THEN Ok([vm EXCEPT !.value_pointer = jump_location], NoValue)
        ELSE Err(vm, OutOfBounds(0, Len(values) + 1, pos))

\* Code::relative_jump
CodeRelativeJump(vm, jump_location, pos) ==
    LET lower_bound == -(vm.value_pointer)
        upper_bound == Len(values)
    IN  IF jump_location >= lower_bound /\ jump_location <= upper_bound
        THEN Ok([vm EXCEPT !.value_pointer = @ + jump_location], NoValue)
        ELSE Err(vm, OutOfBounds(lower_bound, Len(values), pos))

RECURSIVE EvaluateValue(_, _, _)

\* get_arg that reports one missing argument, however many are missing
GetArgExpectsOne(vm, expected_args, pos, depth) ==
    LET nx == CodeNext(vm)
    IN  IF nx.val = NoValue THEN Err(nx.vm, ExpectedArgs(1, pos))
        ELSE [EvaluateValue(nx.vm, nx.val, depth) EXCEPT !.apos = nx.val.pos]

\* VM::get_arg
GetArg(vm, expected_args, pos, depth) ==
    LET nx == CodeNext(vm)
    IN  IF nx.val = NoValue THEN Err(nx.vm, ExpectedArgs(expected_args, pos))
        ELSE [EvaluateValue(nx.vm, nx.val, depth) EXCEPT !.apos = nx.val.pos]

\* VM::get_arg_unevaluated
GetArgUnevaluated(vm, expected_args, pos) ==
    LET nx == CodeNext(vm)
    IN  IF nx.val = NoValue THEN Err(nx.vm, ExpectedArgs(expected_args, pos))
        ELSE [Ok(nx.vm, nx.val) EXCEPT !.apos = nx.val.pos]

\* VM::push that pushes its argument without evaluating it
VmPushUnevaluated(vm, pos, depth) ==
    LET a == GetArgUnevaluated(vm, 1, pos)
    IN  IF a.err # NoError THEN a
        ELSE Ok([a.vm EXCEPT !.operand_stack = StackPush(@, a.res)], NoValue)

\* VM::push
VmPush(vm, pos, depth) ==
    LET a == GetArg(vm, 1, pos, depth)
    IN  IF a.err # NoError THEN a
        ELSE IF a.res = NoValue THEN Err(a.vm, ValueMismatch("Any", "Void", a.apos))
        ELSE Ok([a.vm EXCEPT !.operand_stack = StackPush(@, a.res)], NoValue)

\* VM::pop
VmPop(vm, pos) ==
    LET p == StackPop(vm.operand_stack, pos)
    IN  IF p.err # NoError THEN Err(vm, p.err)
        ELSE Ok([vm EXCEPT !.operand_stack = p.stack], vm.operand_stack[p.idx])

\* ValueKind::Peek in evaluate_value
VmPeek(vm, pos) ==
    LET i == StackPeek(vm.operand_stack)
    IN  IF i = 0 THEN Ok(vm, VoidValue(pos)) ELSE Ok(vm, vm.operand_stack[i])

\* the Value method an arithmetic instruction calls
ValueArith(op, operand1, operand2, pos) ==
    CASE op = "Add" -> ValueAdd(operand1, operand2, pos)
      [] op = "Sub" -> ValueSub(operand1, operand2, pos)
      [] op = "Mul" -> ValueMul(operand1, operand2, pos)
      [] op = "Div" -> ValueDiv(operand1, operand2, pos)

\* arithmetic that also pushes its result
VmArithPushesResult(op, vm, pos) ==
    LET p1 == VmPop(vm, pos)
        p2 == VmPop(p1.vm, pos)
        r  == ValueArith(op, p1.res, p2.res, pos)
    IN  IF p1.err # NoError THEN p1
        ELSE IF p2.err # NoError THEN p2
        ELSE IF r.err # NoError THEN Err(p2.vm, r.err)
        ELSE Ok([p2.vm EXCEPT !.operand_stack = StackPush(@, r.val)], r.val)

\* arithmetic with the second value popped as the left operand
VmArithSwapped(op, vm, pos) ==
    LET p1 == VmPop(vm, pos)
        p2 == VmPop(p1.vm, pos)
        r  == ValueArith(op, p2.res, p1.res, pos)
    IN  IF p1.err # NoError THEN p1
        ELSE IF p2.err # NoError THEN p2
        ELSE IF r.err # NoError THEN Err(p2.vm, r.err)
        ELSE Ok(p2.vm, r.val)

\* arithmetic that pops its first operand and leaves the second on the stack
VmArithPopsOne(op, vm, pos) ==
    LET p1 == VmPop(vm, pos)
        p2 == VmPop(p1.vm, pos)
        r  == ValueArith(op, p1.res, p2.res, pos)
    IN  IF p1.err # NoError THEN p1
        ELSE IF p2.err # NoError THEN p2
        ELSE IF r.err # NoError THEN Err(p2.vm, r.err)
        ELSE Ok(p1.vm, r.val)

\* VM::add, VM::sub, VM::mul, VM::div: two pops, then operand1.op(operand2)
VmArith(op, vm, pos) ==
    LET p1 == VmPop(vm, pos)
        p2 == VmPop(p1.vm, pos)
        r  == ValueArith(op, p1.res, p2.res, pos)
    IN  IF p1.err # NoError THEN p1
        ELSE IF p2.err # NoError THEN p2
        ELSE IF r.err # NoError THEN Err(p2.vm, r.err)
        ELSE Ok(p2.vm, r.val)

\* a comparison that takes its second argument as the left operand
VmCompareSwapped(op, vm, pos, depth) ==
    LET a1 == GetArg(vm, 2, pos, depth)
        a2 == GetArg(a1.vm, 1, pos, depth)
        r  == CASE op = "Equal"    -> ValOk(ValueEqual(a2.res, a1.res, pos))
                [] op = "NotEqual" -> ValOk(ValueNotEqual(a2.res, a1.res, pos))
                [] OTHER           -> ValueCompare(op, a2.res, a1.res, pos)
    IN  IF a1.err # NoError THEN a1
        ELSE IF a2.err # NoError THEN a2
        ELSE IF a1.res = NoValue THEN Err(a2.vm, ValueMismatch("Any", "Void", a1.apos))
        ELSE IF a2.res = NoValue THEN Err(a2.vm, ValueMismatch("Any", "Void", a2.apos))
        ELSE IF r.err # NoError THEN Err(a2.vm, r.err)
        ELSE Ok(a2.vm, r.val)

\* VM::lt, lte, gt, gte, eq, neq: two inline arguments, then operand1.op(operand2)
VmCompare(op, vm, pos, depth) ==
    LET a1 == GetArg(vm, 2, pos, depth)
        a2 == GetArg(a1.vm, 1, pos, depth)
        r  == CASE op = "Equal"    -> ValOk(ValueEqual(a1.res, a2.res, pos))
                [] op = "NotEqual" -> ValOk(ValueNotEqual(a1.res, a2.res, pos))
                [] OTHER           -> ValueCompare(op, a1.res, a2.res, pos)
    IN  IF a1.err # NoError THEN a1
        ELSE IF a2.err # NoError THEN a2
        ELSE IF a1.res = NoValue THEN Err(a2.vm, ValueMismatch("Any", "Void", a1.apos))
        ELSE IF a2.res = NoValue THEN Err(a2.vm, ValueMismatch("Any", "Void", a2.apos))
        ELSE IF r.err # NoError THEN Err(a2.vm, r.err)
        ELSE Ok(a2.vm, r.val)

\* VM::jmp
VmJmp(vm, pos, depth) ==
    LET a == GetArg(vm, 1, pos, depth)
    IN  IF a.err # NoError THEN a
        ELSE IF a.res = NoValue THEN Err(a.vm, ValueMismatch("Int", "Void", a.apos))
        ELSE IF a.res.kind = "Int" THEN CodeJump(a.vm, a.res.n, pos)
        ELSE Err(a.vm, ValueMismatch("Int", GetValueName(a.res.kind), a.apos))

\* VM::rjmp
VmRjmp(vm, pos, depth) ==
    LET a == GetArg(vm, 1, pos, depth)
    IN  IF a.err # NoError THEN a
        ELSE IF a.res = NoValue THEN Err(a.vm, ValueMismatch("Int", "Void", a.apos))
        ELSE IF a.res.kind = "Int" THEN CodeRelativeJump(a.vm, a.res.n, pos)
        ELSE Err(a.vm, ValueMismatch("Int", GetValueName(a.res.kind), a.apos))

\* VM::jmpt
VmJmpt(vm, pos, depth) ==
    LET i == StackPeek(vm.operand_stack)
    IN  IF i # 0 /\ IsTruthy(vm.operand_stack[i]) THEN VmJmp(vm, pos, depth)
        ELSE IF i = 0 THEN Err(vm, ErrorNew("EmptyStack", pos))
        ELSE Ok(vm, NoValue)

\* VM::jmpf
VmJmpf(vm, pos, depth) ==
    LET i == StackPeek(vm.operand_stack)
    IN  IF i # 0 /\ ~IsTruthy(vm.operand_stack[i]) THEN VmJmp(vm, pos, depth)
        ELSE IF i = 0 THEN Err(vm, ErrorNew("EmptyStack", pos))
        ELSE Ok(vm, NoValue)

\* VM::print (newline = FALSE) and VM::printn (newline = TRUE)
VmPrint(newline, vm, pos, depth) ==
    LET a == GetArg(vm, 1, pos, depth)
    IN  IF a.err # NoError THEN a
        ELSE IF a.res = NoValue THEN Err(a.vm, ValueMismatch("Any", "Void", a.apos))
        ELSE Ok([a.vm EXCEPT !.output =
                    Append(@, Show(a.res) \o (IF newline THEN <<"\n">> ELSE <<>>))], NoValue)

\* VM::set
VmSet(vm, pos, depth) ==
    LET a1 == GetArgUnevaluated(vm, 2, pos)
        a2 == GetArg(a1.vm, 1, pos, depth)
        f  == StackPeek(a2.vm.call_stack)
    IN  IF a1.err # NoError THEN a1
        ELSE IF a2.err # NoError THEN a2
        ELSE IF a1.res.kind = "Identifier"
        THEN IF a2.res # NoValue
             THEN IF f = 0 THEN Err(a2.vm, Panic("UnwrapNone"))
                  ELSE Ok([a2.vm EXCEPT !.call_stack[f] = StoreDefine(@, a1.res.name, a2.res)],
                          NoValue)
             ELSE Err(a2.vm, ValueMismatch("Any", "Void", a2.apos))
        ELSE Err(a2.vm, ValueMismatch("Identifier", GetValueName(a1.res.kind), a1.apos))

\* VM::call that records the pointer before its argument is read
VmCallReturnsToArgument(vm, pos) ==
    LET a1 == GetArgUnevaluated(vm, 1, pos)
        label_name == a1.res.name
        start == labels[label_name].start_pos
        new_frame == FrameNew(vm.value_pointer, label_name, 0)
    IN  IF a1.err # NoError THEN a1
        ELSE IF a1.res.kind = "Identifier"
        THEN IF label_name \in DOMAIN labels
             THEN Ok([a1.vm EXCEPT !.value_pointer = start + 1,
                                   !.call_stack = StackPush(@, new_frame)], NoValue)
             ELSE Err(a1.vm, ErrorNew("UndefinedLabel", a1.apos))
        ELSE Err(a1.vm, ValueMismatch("Label", GetValueName(a1.res.kind), a1.apos))

\* VM::call that puts the frame of the callee in the place of the current frame
VmCallReplacesFrame(vm, pos) ==
    LET a1 == GetArgUnevaluated(vm, 1, pos)
        label_name == a1.res.name
        caller_pos == a1.vm.value_pointer
        start == labels[label_name].start_pos
        new_frame == FrameNew(caller_pos, label_name, 0)
    IN  IF a1.err # NoError THEN a1
        ELSE IF a1.res.kind = "Identifier"
        THEN IF label_name \in DOMAIN labels
             THEN Ok([a1.vm EXCEPT !.value_pointer = start + 1,
                                   !.call_stack = StackPush(StackPop(@, pos).stack, new_frame)],
                     NoValue)
             ELSE Err(a1.vm, ErrorNew("UndefinedLabel", a1.apos))
        ELSE Err(a1.vm, ValueMismatch("Label", GetValueName(a1.res.kind), a1.apos))

\* VM::call, with Code::set_label_location and Code::get_label_start_end
VmCall(vm, pos) ==
    LET a1 == GetArgUnevaluated(vm, 1, pos)
        label_name == a1.res.name
        caller_pos == a1.vm.value_pointer
        start == labels[label_name].start_pos
        end   == labels[label_name].end_pos
        f     == StackPeek(a1.vm.call_stack)
        nested == /\ f # 0
                  /\ a1.vm.call_stack[f].name \in DOMAIN labels
                  /\ labels[a1.vm.call_stack[f].name].start_pos < start
                  /\ end < labels[a1.vm.call_stack[f].name].end_pos
        new_frame == FrameNew(caller_pos, label_name, IF nested THEN f ELSE 0)
    IN  IF a1.err # NoError THEN a1
        ELSE IF a1.res.kind = "Identifier"
        THEN IF label_name \in DOMAIN labels
             THEN Ok([a1.vm EXCEPT !.value_pointer = start + 1,
                                   !.call_stack = StackPush(@, new_frame)], NoValue)
             ELSE Err(a1.vm, ErrorNew("UndefinedLabel", a1.apos))
        ELSE Err(a1.vm, ValueMismatch("Label", GetValueName(a1.res.kind), a1.apos))

\* ValueKind::Label in evaluate_value: fetch until an End has been fetched
RECURSIVE SkipLabel(_, _)
SkipLabel(vm, pos) ==
    LET nx == CodeNext(vm)
    IN  IF nx.val = NoValue THEN Err(nx.vm, ErrorNew("NoEndOfLabel", pos))
        ELSE IF nx.val.kind = "End" THEN Ok(nx.vm, NoValue)
        ELSE SkipLabel(nx.vm, pos)

\* ValueKind::End in evaluate_value
VmEnd(vm, pos) ==
    LET p == StackPop(vm.call_stack, pos)
    IN  IF p.err # NoError THEN Err(vm, p.err)
        ELSE CodeJump([vm EXCEPT !.call_stack = p.stack],
                      vm.call_stack[p.idx].caller_position, pos)

\* ValueKind::Identifier that searches from the store of the most recently pushed frame
VmIdentifierTopFrame(vm, value) ==
    LET f == Len(vm.call_stack)
        g == StoreGet(vm.call_stack, f, value.name, value.pos)
    IN  IF f = 0 THEN Err(vm, Panic("UnwrapNone"))
        ELSE IF g.err # NoError THEN Err(vm, g.err)
        ELSE Ok(vm, g.val)

\* ValueKind::Identifier in evaluate_value
VmIdentifier(vm, value) ==
    LET f == StackPeek(vm.call_stack)
        g == StoreGet(vm.call_stack, f, value.name, value.pos)
    IN  IF f = 0 THEN Err(vm, Panic("UnwrapNone"))
        ELSE IF g.err # NoError THEN Err(vm, g.err)
        ELSE Ok(vm, g.val)

\* VM::evaluate_value
EvaluateValue(vm, value, depth) ==
    LET k == value.kind
        d == depth - 1
    IN  IF depth = 0 THEN Err(vm, Panic("StackOverflow"))
        ELSE CASE k \in {"Void", "Any"} -> Ok(vm, NoValue)
               [] k \in {"Int", "Float", "Boolean", "String"} -> Ok(vm, value)
               [] k = "Identifier"  -> VmIdentifier(vm, value)
               [] k = "Label"       -> SkipLabel(vm, value.pos)
               [] k = "End"         -> VmEnd(vm, value.pos)
               [] k = "Push"        -> VmPush(vm, value.pos, d)
               [] k = "Pop"         -> VmPop(vm, value.pos)
               [] k = "Peek"        -> VmPeek(vm, value.pos)
               [] k \in {"Add", "Sub", "Mul", "Div"} -> VmArith(k, vm, value.pos)
               [] k \in {"LessThan", "LessThanEqual", "GreaterThan", "GreaterThanEqual",
                         "Equal", "NotEqual"} -> VmCompare(k, vm, value.pos, d)
               [] k = "Jump"         -> VmJmp(vm, value.pos, d)
               [] k = "RelativeJump" -> VmRjmp(vm, value.pos, d)
               [] k = "JumpIfTrue"   -> VmJmpt(vm, value.pos, d)
               [] k = "JumpIfFalse"  -> VmJmpf(vm, value.pos, d)
               [] k = "Print"        -> VmPrint(FALSE, vm, value.pos, d)
               [] k = "PrintNewLine" -> VmPrint(TRUE, vm, value.pos, d)
               [] k = "Set"          -> VmSet(vm, value.pos, d)
               [] k = "Call"         -> VmCall(vm, value.pos)

\* VM::new that leaves the call stack empty
VmNewWithoutFrame(toks) ==
    LET code == CodeNew(toks)
    IN  [err  |-> code.err,
         code |-> code,
         vm   |-> [value_pointer |-> code.value_pointer,
                   operand_stack |-> <<>>,
                   call_stack    |-> <<>>,
                   output        |-> <<>>]]

\* VM::new
VmNew(toks) ==
    LET code == CodeNew(toks)
    IN  [err  |-> code.err,
         code |-> code,
         vm   |-> [value_pointer |-> code.value_pointer,
                   operand_stack |-> <<>>,
                   call_stack    |-> <<FrameNew(0, "main", 0)>>,
                   output        |-> <<>>]]

(***************************************************************************)
(* Programs.  A program is written as its words; TokensOf gives each word  *)
(* the position the lexer gives it in the text where the words are         *)
(* separated by single spaces: the 1-based offset of its first character.  *)
(***************************************************************************)
Word(kind) == [kind |-> kind, n |-> 0, e |-> 0, b |-> FALSE, s |-> <<>>, name |-> "", pos |-> 0]

TInt(n)      == [Word("IntegerLiteral") EXCEPT !.n = n]
TBool(b)     == [Word("BooleanLiteral") EXCEPT !.b = b]
TStr(s)      == [Word("StringLiteral") EXCEPT !.s = s]
TId(name)    == [Word("Identifier") EXCEPT !.name = name]
TLabel(name) == [Word("Label") EXCEPT !.name = name]

\* the number of characters of the word a token is lexed from
WordLen(token) ==
    CASE token.kind = "IntegerLiteral" -> Len(IntToStr(token.n))
      [] token.kind = "BooleanLiteral" -> Len(Show(BooleanValue(0, token.b)))
      [] token.kind = "StringLiteral"  -> Len(token.s) + 2
      [] token.kind = "Identifier"     -> Len(token.name)
      [] token.kind = "Label"          -> Len(token.name) + 1
      [] OTHER                         -> Len(Mnemonic(token.kind))

\* Lexer::lex: initial_point of the i-th word
RECURSIVE PosAt(_, _)
PosAt(words, i) == IF i = 1 THEN 1 ELSE PosAt(words, i - 1) + WordLen(words[i - 1]) + 1

TokensOf(words) == [i \in 1..Len(words) |-> [words[i] EXCEPT !.pos = PosAt(words, i)]]

\* @main body end
Main(body) == <<TLabel("main")>> \o body \o <<Word("End")>>

Push(lit) == <<Word("Push"), lit>>

Lits == {TInt(0), TInt(1), TBool(TRUE), TBool(FALSE), TStr(<<>>), TStr(<<"a">>)}

\* up to k pushes of a literal
RECURSIVE PushSeqs(_)
PushSeqs(k) ==
    IF k = 0 THEN {<<>>}
    ELSE LET shorter == PushSeqs(k - 1)
         IN  shorter \cup {p \o Push(l) : p \in shorter, l \in Lits}

\* the longest program of JumpPrograms
MaxLen == 2 * MaxPushes + 4

\* pushes, then one jump instruction with a literal target
JumpPrograms ==
    {Main(p \o <<Word(j), TInt(t)>>) :
        p \in PushSeqs(MaxPushes), j \in {"Jump", "JumpIfTrue", "JumpIfFalse"},
        t \in -1..(MaxLen + 1)}
    \cup
    {Main(p \o <<Word("RelativeJump"), TInt(d)>>) :
        p \in PushSeqs(MaxPushes), d \in -(MaxLen + 1)..(MaxLen + 1)}

\* instructions run after the pushes
Forms ==
    { <<Word("Pop")>>, <<Word("Peek")>>, <<Word("Push"), Word("Peek")>>,
      <<Word("Push"), Word("Pop")>>, <<Word("Add")>>, <<Word("Sub")>>, <<Word("Mul")>>,
      <<Word("Div")>>, <<Word("Push"), Word("Add")>>, <<Word("Push"), Word("Div")>>,
      <<Word("Push"), Word("Add"), TInt(1), TInt(2)>>,
      <<Word("Push"), Word("LessThan"), TInt(1), TInt(2)>>,
      <<Word("Push"), Word("Equal"), Word("Pop"), Word("Pop")>>,
      <<Word("Push"), Word("NotEqual"), Word("Peek"), TInt(1)>>,
      <<Word("Push"), Word("GreaterThanEqual"), Word("Pop"), Word("Pop")>>,
      <<Word("Push"), Word("LessThanEqual"), Word("Pop"), Word("Peek")>>,
      <<Word("Push"), Word("GreaterThan"), Word("Pop"), TStr(<<"a">>)>>,
      <<Word("PrintNewLine"), Word("Peek")>>, <<Word("Print"), Word("Pop")>>,
      <<Word("PrintNewLine"), Word("Add")>>,
      <<Word("Set"), TId("x"), Word("Pop"), Word("Push"), TId("x")>>,
      <<Word("Push"), TId("x")>>, <<Word("Push"), Word("Void")>>, <<Word("Any")>>,
      <<Word("Push")>>, <<Word("Set"), TInt(1), TInt(1)>>,
      <<Word("JumpIfTrue"), Word("Pop")>>, <<Word("Jump"), Word("Peek")>> }

StackPrograms ==
    {Main(p \o f \o tail) : p \in PushSeqs(MaxPushes), f \in Forms, tail \in {<<>>, <<Word("Pop")>>}}

\* programs without any label: the tests of main.rs and the example of vm.rs
NoLabelPrograms == {Push(l) : l \in Lits} \cup {Push(l) \o <<Word("Pop")>> : l \in Lits}

\* @name body end
Def(name, body) == <<TLabel(name)>> \o body \o <<Word("End")>>

Call(name) == <<Word("Call"), TId(name)>>

Scenario1 == Main(Push(TInt(1)) \o Push(TInt(2)) \o <<Word("Add"), Word("PrintNewLine"), Word("Pop")>>)

Scenario1PushAdd ==
    Main(Push(TInt(1)) \o Push(TInt(2)) \o
         <<Word("Push"), Word("Add"), Word("PrintNewLine"), Word("Pop")>>)

Scenario5 ==
    Def("outer", <<Word("Set"), TId("y"), TInt(5)>> \o
                 Def("inner", Push(TId("y")) \o <<Word("PrintNewLine"), Word("Pop")>>) \o
                 Call("inner"))
    \o Main(Call("outer"))

Scenario6 == Main(Push(TInt(10)) \o Push(TInt(0)) \o <<Word("Div")>>)

Scenario6Swapped == Main(Push(TInt(0)) \o Push(TInt(10)) \o <<Word("Div")>>)

\* programs with labels and calls
CallPrograms ==
    { Def("f", Push(TInt(1))) \o Main(Call("f") \o <<Word("Pop")>>),
      Def("f", <<>>) \o Main(Call("f") \o Call("f")),
      Main(Def("f", Push(TInt(1))) \o Call("f") \o Call("f")),
      Main(Def("f", Def("g", Push(TInt(1))) \o Call("g")) \o Call("f")),
      Def("f", Def("g", Def("h", <<>>))) \o Main(Call("f") \o Push(TInt(1))),
      Def("f", Call("g")) \o Def("g", Push(TInt(1))) \o Main(Call("f") \o <<Word("Pop")>>),
      Def("f", <<Word("Jump"), TInt(7)>>) \o Main(Call("f") \o Push(TInt(1))),
      Def("f", <<Word("Push"), Word("End")>>) \o Main(Call("f") \o Push(TInt(1))),
      Def("f", <<Word("LessThan"), Word("End"), TInt(1)>>) \o Main(Call("f") \o Push(TInt(1))),
      Main(Call("main")),
      Main(Call("g")),
      Main(<<Word("Call"), TInt(1)>>),
      Main(<<Word("Push"), Word("Call"), TId("main")>>),
      Main(<<Word("End"), Word("Set"), TId("x"), TInt(1)>>) \o Push(TInt(1)),
      Main(<<>>) \o Push(TId("x")),
      Def("f", <<>>) \o <<Word("End")>>,
      <<TLabel("f")>> \o Main(<<>>),
      Def("f", <<>>) \o Def("f", <<>>) \o Main(<<>>) }

\* @f set x v end @main call f push x end
SetInCallee(v) ==
    Def("f", <<Word("Set"), TId("x"), v>>) \o Main(Call("f") \o Push(TId("x")))

\* @outer set y v @inner push y end call inner end @main call outer end
OuterInner(v) ==
    Def("outer", <<Word("Set"), TId("y"), v>> \o Def("inner", Push(TId("y"))) \o Call("inner"))
    \o Main(Call("outer"))

\* @main set y v @inner push y end call inner end
MainInner(v) ==
    Main(<<Word("Set"), TId("y"), v>> \o Def("inner", Push(TId("y"))) \o Call("inner"))

\* programs that define and read variables across calls
ScopePrograms ==
    {SetInCallee(v) : v \in Lits} \cup {OuterInner(v) : v \in Lits}
    \cup {MainInner(v) : v \in Lits}
    \cup
    { Def("f", Def("g", <<Word("Set"), TId("x"), TInt(1)>>) \o Call("g") \o Push(TId("x")))
        \o Main(Call("f")),
      Main(Def("g", Push(TId("x"))) \o Def("f", <<Word("Set"), TId("x"), TInt(1)>> \o Call("g"))
           \o Call("f")),
      Def("f", <<Word("Set"), TId("x"), TInt(2)>> \o Push(TId("x")))
        \o Main(<<Word("Set"), TId("x"), TInt(1)>> \o Call("f") \o Push(TId("x"))),
      Main(<<Word("Set"), TId("x"), TInt(1), Word("Set"), TId("x"), TBool(TRUE)>>
           \o Push(TId("x"))),
      Def("f", <<Word("Set"), TStr(<<"a">>), TInt(1)>>) \o Main(Call("f")),
      Def("f", <<Word("Set"), TId("x"), Word("Void")>>) \o Main(Call("f")),
      Def("f", <<Word("Set"), TId("x")>>) \o Main(Call("f")) }

\* programs whose last dispatch is of a value after main's End, reached by a jump
RunPrograms ==
    {Main(<<Word("Jump"), TInt(4)>>) \o <<l>> : l \in Lits}
    \cup {Main(Push(l) \o <<Word("Jump"), TInt(6)>>) \o <<Word("Peek")>> : l \in Lits}
    \cup {Main(Push(l) \o <<Word("Jump"), TInt(6)>>) \o <<Word("Pop"), Word("Peek")>> : l \in Lits}

\* push a push b add
AddPrograms ==
    {Main(Push(TInt(a)) \o Push(TInt(b)) \o <<Word("Add")>>) : a, b \in 0 .. MaxPushes}

Comparisons == {"LessThan", "LessThanEqual", "GreaterThan", "GreaterThanEqual"}

\* push 1 op x y
ComparePrograms ==
    {Main(Push(TInt(1)) \o <<Word(op), x, y>>) : op \in Comparisons, x \in Lits, y \in Lits}

OneArgument == {"Push", "Print", "PrintNewLine", "Jump", "RelativeJump", "Call"}

TwoArguments == Comparisons \cup {"Equal", "NotEqual", "Set"}

\* arguments that evaluate to no value
NoneArguments == {<<Word("Void")>>, <<Word("Any")>>, Push(TInt(1))}

\* programs that end in an instruction without all its arguments, reached by a jump
\* over main's End, and programs with an argument that evaluates to no value
ArgPrograms ==
    {Main(<<Word("Jump"), TInt(4)>>) \o <<Word(op)>> : op \in OneArgument \cup TwoArguments}
    \cup {Main(<<Word("Jump"), TInt(4)>>) \o <<Word(op), first>>
              : op \in TwoArguments, first \in {TInt(1), TId("x")}}
    \cup {Main(<<Word(op)>> \o none) : op \in {"Push", "Print", "PrintNewLine"},
                                         none \in NoneArguments}
    \cup {Main(<<Word("Set"), TId("x")>> \o none) : none \in NoneArguments}
    \cup {Main(<<Word(op)>> \o none \o <<TInt(1)>>)
              : op \in TwoArguments \ {"Set"}, none \in NoneArguments}
    \cup {Main(<<Word(op), TInt(1)>> \o none)
              : op \in TwoArguments \ {"Set"}, none \in NoneArguments}

\* programs that print and then fail inside the argument of an instruction
ErrorPrograms ==
    {Main(Push(l) \o <<Word("Print"), Word("Peek"), Word("Pop"), Word("Push"), Word("Pop")>>)
        : l \in Lits}
    \cup {Main(<<Word("Print"), l, Word("PrintNewLine"), Word("Add"), Word("Print"), l>>)
              : l \in Lits}

\* programs with main's End as the first argument of a two-argument instruction, after
\* values that stand before @main
EndArgPrograms ==
    {before \o <<TLabel("main"), Word(op), Word("End"), TInt(1)>>
        : before \in {<<>>, <<TInt(1)>>, <<TId("x")>>, <<Word("Set"), TId("x"), TInt(1)>>},
          op \in TwoArguments \ {"Set"}}

Programs ==
    JumpPrograms \cup StackPrograms \cup NoLabelPrograms \cup CallPrograms \cup ScopePrograms
    \cup RunPrograms \cup AddPrograms \cup ComparePrograms \cup ErrorPrograms
    \cup ArgPrograms \cup EndArgPrograms
    \cup {Scenario1, Scenario1PushAdd, Scenario5, Scenario6, Scenario6Swapped}

(***************************************************************************)
(* The state machine: VM::new, then the loop of VM::run.                   *)
(***************************************************************************)
VmState == [value_pointer |-> value_pointer, operand_stack |-> operand_stack,
            call_stack |-> call_stack, output |-> output]

NoDispatch(vm) == [idx |-> -1, kind |-> "None", before |-> vm, returned |-> NoValue]

Init ==
    \E words \in Programs :
        LET new == VmNew(TokensOf(words))
        IN  /\ contents = <<>> /\ current_position = 0
            /\ tokens = TokensOf(words)
            /\ values = new.code.values
            /\ labels = new.code.labels
            /\ value_pointer = new.vm.value_pointer
            /\ operand_stack = new.vm.operand_stack
            /\ call_stack = new.vm.call_stack
            /\ output = new.vm.output
            /\ status = IF new.err = NoError THEN "running" ELSE "error"
            /\ error = new.err
            /\ result = NoValue
            /\ last = NoDispatch(new.vm)

\* the sizes the model explores
ValuesBounded(vals) ==
    \A i \in DOMAIN vals :
        /\ vals[i].n <= MaxInt /\ vals[i].n >= -MaxInt
        /\ Len(vals[i].s) <= MaxStrLen

WithinBounds(vm) ==
    /\ Len(vm.operand_stack) <= MaxStack
    /\ Len(vm.call_stack) <= MaxFrames
    /\ Len(vm.output) <= MaxOutput
    /\ ValuesBounded(vm.operand_stack)
    /\ \A f \in DOMAIN vm.call_stack : ValuesBounded(vm.call_stack[f].store)

\* run: `if self.is_finished() { return Ok(None) }` at the top of the loop
Finish ==
    /\ status = "running"
    /\ IsFinished(VmState)
    /\ status' = "done"
    /\ result' = NoValue
    /\ UNCHANGED <<contents, current_position,
                   tokens, values, labels, value_pointer, operand_stack, call_stack,
                   output, error, last>>

\* run: an iteration that returns whatever value the dispatch produced, finished or not
DispatchReturnsAnyValue ==
    /\ status = "running"
    /\ ~IsFinished(VmState)
    /\ LET nx == CodeNext(VmState)
           r  == EvaluateValue(nx.vm, nx.val, MaxDepth)
       IN  /\ WithinBounds(r.vm)
           /\ value_pointer' = r.vm.value_pointer
           /\ operand_stack' = r.vm.operand_stack
           /\ call_stack' = r.vm.call_stack
           /\ output' = r.vm.output
           /\ error' = r.err
           /\ last' = [idx |-> value_pointer, kind |-> nx.val.kind, before |-> VmState,
                       returned |-> r.res]
           /\ IF r.err # NoError
              THEN /\ status' = IF r.err.kind \in {"UnwrapNone", "StackOverflow"}
                                THEN "crashed" ELSE "error"
                   /\ result' = NoValue
              ELSE IF r.res # NoValue
              THEN status' = "done" /\ result' = r.res
              ELSE status' = "running" /\ result' = NoValue
    /\ UNCHANGED <<contents, current_position,
                   tokens, values, labels>>

\* run: an iteration that records the error of the dispatch and goes on
DispatchGoesOnAfterError ==
    /\ status = "running"
    /\ ~IsFinished(VmState)
    /\ LET nx == CodeNext(VmState)
           r  == EvaluateValue(nx.vm, nx.val, MaxDepth)
       IN  /\ WithinBounds(r.vm)
           /\ value_pointer' = r.vm.value_pointer
           /\ operand_stack' = r.vm.operand_stack
           /\ call_stack' = r.vm.call_stack
           /\ output' = r.vm.output
           /\ error' = r.err
           /\ last' = [idx |-> value_pointer, kind |-> nx.val.kind, before |-> VmState,
                       returned |-> r.res]
           /\ IF r.err # NoError /\ r.err.kind \in {"UnwrapNone", "StackOverflow"}
              THEN status' = "crashed" /\ result' = NoValue
              ELSE IF IsFinished(r.vm) /\ r.res # NoValue
              THEN status' = "done" /\ result' = r.res
              ELSE status' = "running" /\ result' = NoValue
    /\ UNCHANGED <<contents, current_position,
                   tokens, values, labels>>

\* run: one iteration of the loop that fetches and dispatches a value
Dispatch ==
    /\ status = "running"
    /\ ~IsFinished(VmState)
    /\ \E nx \in {CodeNext(VmState)} :
       \E r \in {EvaluateValue(nx.vm, nx.val, MaxDepth)} :
           /\ WithinBounds(r.vm)
           /\ value_pointer' = r.vm.value_pointer
           /\ operand_stack' = r.vm.operand_stack
           /\ call_stack' = r.vm.call_stack
           /\ output' = r.vm.output
           /\ error' = r.err
           /\ last' = [idx |-> value_pointer, kind |-> nx.val.kind, before |-> VmState,
                       returned |-> r.res]
           /\ IF r.err # NoError
              THEN /\ status' = IF r.err.kind \in {"UnwrapNone", "StackOverflow"}
                                THEN "crashed" ELSE "error"
                   /\ result' = NoValue
              ELSE IF IsFinished(r.vm) /\ r.res # NoValue
              THEN status' = "done" /\ result' = r.res
              ELSE status' = "running" /\ result' = NoValue
    /\ UNCHANGED <<contents, current_position,
                   tokens, values, labels>>

Next == Finish \/ Dispatch

Spec == Init /\ [][Next]_vars

Ran(words) == tokens = TokensOf(words)

\* the programs whose runs are followed to their end
TerminationPrograms ==
    {Main(p \o f) : p \in PushSeqs(1), f \in Forms}
    \cup ScopePrograms \cup RunPrograms \cup AddPrograms \cup ErrorPrograms \cup ArgPrograms
    \cup EndArgPrograms \cup {Scenario1, Scenario1PushAdd, Scenario5, Scenario6, Scenario6Swapped}

TerminationInit == Init /\ \E words \in TerminationPrograms : Ran(words)

\* run is a loop without any wait: an iteration that can be made is made
TerminationSpec == TerminationInit /\ [][Next]_vars /\ WF_vars(Next)

(***************************************************************************)
(* Properties.                                                             *)
(***************************************************************************)

Returned == status # "running"

Top(stack) == stack[Len(stack)]

Front(stack) == SubSeq(stack, 1, Len(stack) - 1)

\* the last dispatch of the run loop was of an instruction of kind k
Dispatched(k) == last.kind = k

\* the value following the instruction dispatched last is an Int literal
HasIntArg == last.idx + 1 < Len(values) /\ values[last.idx + 2].kind = "Int"

IntArg == values[last.idx + 2].n

Line(text) == <<text \o <<"\n">> >>

\* C1 as stated: `@main push 1 push 2 add printn pop end` prints 3, returns without
\* error and leaves the operand stack empty.
C1_Scenario1Prints3 ==
    Ran(Scenario1) /\ Returned =>
        status = "done" /\ output = Line(<<"3">>) /\ operand_stack = <<>>

\* C1 amended: add returns the sum without pushing it, so in that program printn's pop
\* finds the stack empty: the run fails with EmptyStack at `pop` and prints nothing.
\* With `push add` in place of `add` the program prints 3, returns without error and
\* leaves the operand stack empty.
C1_Scenario1Amended ==
    /\ Ran(Scenario1) /\ Returned =>
          /\ status = "error"
          /\ error = ErrorNew("EmptyStack", values[8].pos)
          /\ values[8].kind = "Pop"
          /\ output = <<>> /\ operand_stack = <<>>
    /\ Ran(Scenario1PushAdd) /\ Returned =>
          status = "done" /\ error = NoError /\ output = Line(<<"3">>) /\ operand_stack = <<>>

C1_Witness ==
    Ran(Scenario1PushAdd) /\ status = "done" /\ output = Line(<<"3">>)

\* C2 as stated: `@main push 10 push 0 div end` fails with DivisionByZero at the
\* position of div.
C2_Scenario6DivisionByZero ==
    Ran(Scenario6) /\ Returned =>
        status = "error" /\ error = ErrorNew("DivisionByZero", values[6].pos)

\* C2 amended: div divides the first value popped by the second, so `push 10 push 0 div`
\* is 0 / 10 and the program returns without error; it is `@main push 0 push 10 div end`
\* (the divisor pushed first) that fails with DivisionByZero at the position of div.
C2_Scenario6Amended ==
    /\ Ran(Scenario6) /\ Returned => status = "done" /\ error = NoError
    /\ Ran(Scenario6) /\ Dispatched("Div") => last.returned = IntValue(values[6].pos, 0)
    /\ Ran(Scenario6Swapped) /\ Returned =>
          /\ status = "error"
          /\ values[6].kind = "Div"
          /\ error = ErrorNew("DivisionByZero", values[6].pos)

C2_Witness ==
    Ran(Scenario6Swapped) /\ status = "error" /\ Dispatched("Div")

\* push was dispatched last, and the value following it is of kind k
PushOf(k) == Dispatched("Push") /\ last.idx + 1 < Len(values) /\ values[last.idx + 2].kind = k

\* C3 as stated: `push add 1 2` on an empty operand stack succeeds and leaves exactly
\* the Int 3 on the operand stack.
C3_PushAddInline ==
    /\ PushOf("Add") /\ last.before.operand_stack = <<>>
    /\ last.idx + 3 < Len(values)
    /\ values[last.idx + 3].kind = "Int" /\ values[last.idx + 3].n = 1
    /\ values[last.idx + 4].kind = "Int" /\ values[last.idx + 4].n = 2
    => /\ error = NoError
       /\ Len(operand_stack) = 1
       /\ operand_stack[1].kind = "Int" /\ operand_stack[1].n = 3

\* C3 amended: an instruction in argument position is evaluated recursively and takes
\* its own operands where it takes them at top level.  Add pops them from the operand
\* stack: `push add 1 2` on an empty stack fails with EmptyStack at add, and `push add`
\* on a stack holding exactly Int a and Int b leaves exactly Int a+b.  Lt reads them
\* inline: `push lt 1 2` pushes the Boolean true on top of the stack.
C3_PushInlineAmended ==
    /\ PushOf("Add") /\ last.before.operand_stack = <<>> =>
          /\ error = ErrorNew("EmptyStack", values[last.idx + 2].pos)
          /\ operand_stack = <<>>
    /\ /\ PushOf("Add") /\ Len(last.before.operand_stack) = 2
       /\ \A i \in 1..2 : last.before.operand_stack[i].kind = "Int"
       => /\ error = NoError
          /\ operand_stack = <<IntValue(values[last.idx + 2].pos,
                                         last.before.operand_stack[1].n
                                         + last.before.operand_stack[2].n)>>
          /\ value_pointer = last.idx + 2
    /\ /\ PushOf("LessThan") /\ last.idx + 3 < Len(values)
       /\ values[last.idx + 3].kind = "Int" /\ values[last.idx + 4].kind = "Int"
       => /\ error = NoError
          /\ operand_stack =
                Append(last.before.operand_stack,
                       BooleanValue(values[last.idx + 2].pos,
                                    values[last.idx + 3].n < values[last.idx + 4].n))
          /\ value_pointer = last.idx + 4

C3_Witness ==
    /\ PushOf("Add") /\ Len(last.before.operand_stack) = 2
    /\ operand_stack = <<IntValue(values[last.idx + 2].pos, 3)>>

\* C4: a program made only of `push v`, with no label, is constructed and run without
\* error and ends with exactly v on the operand stack; followed by `pop` it ends with
\* an empty operand stack.
C4_PushWithoutLabelRuns ==
    \A l \in Lits :
        /\ Ran(Push(l)) =>
              /\ status # "error"
              /\ status = "done" => operand_stack = <<values[2]>>
        /\ Ran(Push(l) \o <<Word("Pop")>>) =>
              /\ status # "error"
              /\ status = "done" => operand_stack = <<>>

\* two values of the same kind and payload (their positions apart)
SameValue(a, b) == [a EXCEPT !.pos = 0] = [b EXCEPT !.pos = 0]

\* C5: Peek returns the most recently pushed value not yet popped, or a Void value if
\* the stack is empty, and leaves the operand stack unchanged.
C5_PeekReturnsTop ==
    Dispatched("Peek") =>
        /\ error = NoError
        /\ operand_stack = last.before.operand_stack
        /\ IF last.before.operand_stack = <<>>
           THEN last.returned = VoidValue(values[last.idx + 1].pos)
           ELSE SameValue(last.returned, Top(last.before.operand_stack))

\* C6: JmpT jumps to its Int argument iff the top of the operand stack is truthy, JmpF
\* iff it is falsy; the tested value stays on the stack; an empty stack gives
\* EmptyStack.  (Targets that coincide with the fall-through pointers are left out.)
C6_ConditionalJumpTestsTop ==
    /\ last.kind \in {"JumpIfTrue", "JumpIfFalse"} /\ HasIntArg
    /\ IntArg >= 0 /\ IntArg <= Len(values)
    /\ IntArg \notin {last.idx + 1, last.idx + 2}
    => IF last.before.operand_stack = <<>>
       THEN error = ErrorNew("EmptyStack", values[last.idx + 1].pos)
       ELSE /\ error = NoError
            /\ operand_stack = last.before.operand_stack
            /\ (value_pointer = IntArg) <=>
                  (IsTruthy(Top(last.before.operand_stack)) = (last.kind = "JumpIfTrue"))

\* C7: when the branch is not taken, JmpT / JmpF at index i with a literal argument
\* still moves the pointer past the argument, to i+2.  (Stated on one-element stacks,
\* where the bottom and the top of the stack are the same value.)
C7_UntakenBranchConsumesArgument ==
    /\ last.kind \in {"JumpIfTrue", "JumpIfFalse"} /\ HasIntArg
    /\ Len(last.before.operand_stack) = 1
    /\ IsTruthy(last.before.operand_stack[1]) # (last.kind = "JumpIfTrue")
    => error = NoError /\ value_pointer = last.idx + 2

C9_RelativeJump ==
    Dispatched("RelativeJump") /\ HasIntArg =>
        LET c == last.idx + 2
        IN  IF IntArg >= -c /\ IntArg <= Len(values) - c
            THEN error = NoError /\ value_pointer = c + IntArg
            ELSE error.kind = "OutOfBounds" /\ value_pointer = c

\* C10: `call NAME` at index i naming an existing label pushes one frame and sets the
\* pointer to start_index(NAME)+1; every frame pushed by a call records i+2 as its
\* caller index; and the End executed while that frame is the current one pops it,
\* leaving the call stack as it was before the call and the pointer at i+2.
C10_CallThenEnd ==
    /\ /\ Dispatched("Call") /\ last.idx + 1 < Len(values)
       /\ values[last.idx + 2].kind = "Identifier"
       /\ values[last.idx + 2].name \in DOMAIN labels
       => /\ error = NoError
          /\ Front(call_stack) = last.before.call_stack
          /\ Top(call_stack).caller_position = last.idx + 2
          /\ Top(call_stack).name = values[last.idx + 2].name
          /\ value_pointer = labels[values[last.idx + 2].name].start_pos + 1
    /\ \A j \in 2..Len(call_stack) :
          LET cp == call_stack[j].caller_position
          IN  /\ cp >= 2 /\ cp <= Len(values)
              /\ values[cp - 1].kind = "Call"
              /\ values[cp].kind = "Identifier" /\ values[cp].name = call_stack[j].name
    /\ Dispatched("End") /\ last.before.call_stack # <<>> =>
          /\ error = NoError
          /\ call_stack = Front(last.before.call_stack)
          /\ value_pointer = Top(last.before.call_stack).caller_position

C10_Witness ==
    /\ Dispatched("End") /\ Len(last.before.call_stack) = 2
    /\ status = "running"
    /\ values[value_pointer - 1].kind = "Call"
    /\ Len(call_stack) = 1

(***************************************************************************)
(* Scoping: Set, Identifier and Call on the call stack.                    *)
(***************************************************************************)
\* the position of the k-th word (from 1) of the program that is running
PosOfWord(k) == tokens[k].pos

\* C11: a variable defined with Set inside a called label is not visible to the
\* caller after the callee's End: reading it in the caller, where it was never
\* defined, fails with UndefinedVariable at the identifier that is read.
C11_CalleeVariableNotVisible ==
    \A v \in Lits :
        Ran(SetInCallee(v)) /\ Returned
            => error = ErrorNew("UndefinedVariable", PosOfWord(10))

\* C12: a variable defined in an outer label is read inside a label nested in the
\* outer one and called from it: the push of it in the inner label pushes the value
\* that was set; the program of scenario 5 prints 5 and ends without error.
C12_NestedLabelReadsOuter ==
    /\ \A v \in Lits :
          /\ Ran(OuterInner(v)) /\ Dispatched("Push") /\ last.idx = 5
                => /\ error = NoError
                   /\ operand_stack # <<>> /\ SameValue(Top(operand_stack), ValueFromToken(v))
          /\ Ran(OuterInner(v)) /\ Returned => error = NoError /\ status = "done"
          /\ Ran(MainInner(v)) /\ Dispatched("Push") /\ last.idx = 5
                => /\ error = NoError
                   /\ operand_stack # <<>> /\ SameValue(Top(operand_stack), ValueFromToken(v))
    /\ Ran(Scenario5) /\ Returned
          => /\ status = "done" /\ error = NoError
             /\ output = Line(<<"5">>)
             /\ operand_stack = <<>>

C12_Witness ==
    /\ Ran(Scenario5) /\ status = "done" /\ output = Line(<<"5">>)
    /\ last.kind = "End"

\* the label whose frame is F encloses the label N strictly
Encloses(F, N) ==
    /\ labels[F].start_pos < labels[N].start_pos
    /\ labels[N].end_pos < labels[F].end_pos

\* C13: when call NAME runs while F is the top frame of the call stack, the new
\* frame's store has the store of F as parent iff the label of F strictly encloses
\* NAME, and no parent otherwise.
C13_CallInheritsFromCaller ==
    ( /\ Dispatched("Call") /\ error = NoError
      /\ last.before.operand_stack = operand_stack
      /\ last.before.call_stack # <<>>
      /\ Len(call_stack) = Len(last.before.call_stack) + 1 )
        => Top(call_stack).parent =
               IF Encloses(Top(last.before.call_stack).name, Top(call_stack).name)
               THEN Len(last.before.call_stack) ELSE 0

\* C14: Set with an Identifier and a literal binds the name in the store of the top
\* frame only, leaving the other frames and the operand stack as they were; Set with
\* anything but an Identifier fails with ValueMismatch at that argument.
SetTakesLiteral ==
    /\ Dispatched("Set") /\ last.idx + 2 < Len(values)
    /\ values[last.idx + 3].kind \in {"Int", "Boolean", "String"}
    /\ last.before.call_stack # <<>>

C14_SetBindsInTopFrame ==
    SetTakesLiteral =>
        IF values[last.idx + 2].kind = "Identifier"
        THEN /\ error = NoError
             /\ operand_stack = last.before.operand_stack
             /\ call_stack = [last.before.call_stack EXCEPT
                                 ![Len(last.before.call_stack)] =
                                     StoreDefine(@, values[last.idx + 2].name, values[last.idx + 3])]
        ELSE /\ error = ValueMismatch("Identifier", GetValueName(values[last.idx + 2].kind),
                                      values[last.idx + 2].pos)
             /\ call_stack = last.before.call_stack
             /\ operand_stack = last.before.operand_stack

(***************************************************************************)
(* The Store on its own (utils/store.rs): stores are created with or       *)
(* without a parent, and define and get are applied to them.  The stores   *)
(* are kept in call_stack, as the stores of frames are; `result` holds the *)
(* name and position an operation was given, `last` what it returned.      *)
(***************************************************************************)
StoreNames == {"x", "y"}

StoreValues == {IntValue(0, 0), IntValue(0, 1)}

StorePositions == {3, 8}

StoreArg(name, pos) == ValueNew(pos, "Identifier", 0, FALSE, <<>>, name)

StoreInit ==
    /\ contents = <<>> /\ current_position = 0
    /\ tokens = <<>> /\ values = <<>> /\ labels = EmptyMap
    /\ value_pointer = 0 /\ operand_stack = <<>> /\ output = <<>>
    /\ call_stack = <<FrameNew(0, "store", 0)>>
    /\ status = "store" /\ error = NoError /\ result = NoValue
    /\ last = NoDispatch(VmState)

\* Store::new(parent_store)
StoreNewStep ==
    /\ Len(call_stack) < MaxStores
    /\ \E parent \in 0..Len(call_stack) :
          call_stack' = Append(call_stack, FrameNew(0, "store", parent))
    /\ last' = [idx |-> Len(call_stack) + 1, kind |-> "new", before |-> VmState,
                returned |-> NoValue]
    /\ error' = NoError /\ result' = NoValue
    /\ UNCHANGED <<contents, current_position,
                   tokens, values, labels, value_pointer, operand_stack, output, status>>

\* store.define(name, value)
StoreDefineStep ==
    /\ \E idx \in DOMAIN call_stack, name \in StoreNames, v \in StoreValues :
          /\ call_stack' = [call_stack EXCEPT ![idx] = StoreDefine(@, name, v)]
          /\ last' = [idx |-> idx, kind |-> "define", before |-> VmState, returned |-> v]
          /\ result' = StoreArg(name, 0)
    /\ error' = NoError
    /\ UNCHANGED <<contents, current_position,
                   tokens, values, labels, value_pointer, operand_stack, output, status>>

\* store.get(name, pos)
StoreGetStep ==
    /\ \E idx \in DOMAIN call_stack, name \in StoreNames, pos \in StorePositions :
          LET g == StoreGet(call_stack, idx, name, pos)
          IN  /\ last' = [idx |-> idx, kind |-> "get", before |-> VmState, returned |-> g.val]
              /\ error' = g.err
              /\ result' = StoreArg(name, pos)
    /\ UNCHANGED <<contents, current_position,
                   tokens, values, labels, value_pointer, operand_stack, call_stack,
                   output, status>>

StoreNext == StoreNewStep \/ StoreDefineStep \/ StoreGetStep

StoreSpec == StoreInit /\ [][StoreNext]_vars

\* the stores get(name) consults from store idx on: idx, its parent, and so on
RECURSIVE StoreChain(_, _)
StoreChain(cs, idx) == IF idx = 0 THEN <<>> ELSE <<idx>> \o StoreChain(cs, cs[idx].parent)

\* the stores of a chain that bind the name, nearest first
Binding(cs, chain, name) == SelectSeq(chain, LAMBDA i : name \in DOMAIN cs[i].store)

\* C15: define writes the local map only, overwriting an earlier local binding and
\* leaving every other store (the parent too) and every other name as they were, so
\* that get of the name on that store is then the value defined last; get returns the
\* local binding if there is one, else what the nearest store up the parent chain
\* binds, else UndefinedVariable at the position given.
C15_StoreDefineGet ==
    /\ last.kind = "define" =>
          /\ call_stack[last.idx].store[result.name] = last.returned
          /\ \A n \in DOMAIN call_stack[last.idx].store \ {result.name} :
                /\ n \in DOMAIN last.before.call_stack[last.idx].store
                /\ call_stack[last.idx].store[n] = last.before.call_stack[last.idx].store[n]
          /\ DOMAIN call_stack[last.idx].store =
                DOMAIN last.before.call_stack[last.idx].store \cup {result.name}
          /\ \A i \in DOMAIN call_stack \ {last.idx} : call_stack[i] = last.before.call_stack[i]
          /\ call_stack[last.idx].parent = last.before.call_stack[last.idx].parent
          /\ \A pos \in StorePositions :
                StoreGet(call_stack, last.idx, result.name, pos) = ValOk(last.returned)
    /\ last.kind = "get" =>
          LET bound == Binding(call_stack, StoreChain(call_stack, last.idx), result.name)
          IN  /\ call_stack = last.before.call_stack
              /\ IF bound # <<>>
                 THEN /\ error = NoError
                      /\ last.returned = call_stack[bound[1]].store[result.name]
                 ELSE /\ error = ErrorNew("UndefinedVariable", result.pos)
                      /\ last.returned = NoValue

\* a define that overwrites a different local value while the parent binds the name too
C15_Witness ==
    /\ last.kind = "define"
    /\ result.name \in DOMAIN last.before.call_stack[last.idx].store
    /\ last.before.call_stack[last.idx].store[result.name] # last.returned
    /\ call_stack[last.idx].parent # 0
    /\ result.name \in DOMAIN call_stack[call_stack[last.idx].parent].store

(***************************************************************************)
(* The loader on its own (Code::new through VM::new): a token sequence is  *)
(* drawn, then loaded.                                                     *)
(***************************************************************************)
LoaderWords == {TLabel("main"), TLabel("Main"), TLabel("f"), Word("End"), Word("Pop")}

\* the word sequences of length up to k
RECURSIVE WordSeqs(_)
WordSeqs(k) ==
    IF k = 0 THEN {<<>>}
    ELSE LET shorter == WordSeqs(k - 1)
         IN  shorter \cup {Append(p, w) : p \in {q \in shorter : Len(q) = k - 1}, w \in LoaderWords}

LoaderInit ==
    /\ contents = <<>> /\ current_position = 0
    /\ \E words \in WordSeqs(MaxTokens) : tokens = TokensOf(words)
    /\ values = <<>> /\ labels = EmptyMap
    /\ value_pointer = 0 /\ operand_stack = <<>> /\ call_stack = <<>> /\ output = <<>>
    /\ status = "unloaded" /\ error = NoError /\ result = NoValue
    /\ last = NoDispatch(VmState)

\* VM::new(tokens)
Load ==
    /\ status = "unloaded"
    /\ LET new == VmNew(tokens)
       IN  /\ values' = new.code.values
           /\ labels' = new.code.labels
           /\ value_pointer' = new.vm.value_pointer
           /\ operand_stack' = new.vm.operand_stack
           /\ call_stack' = new.vm.call_stack
           /\ output' = new.vm.output
           /\ status' = IF new.err = NoError THEN "running" ELSE "error"
           /\ error' = new.err
           /\ last' = NoDispatch(new.vm)
    /\ UNCHANGED <<contents, current_position,
                   tokens, result>>

\* Code::repl(tokens)
LoadRepl ==
    /\ status = "unloaded"
    /\ LET code == CodeRepl(tokens)
       IN  /\ values' = code.values
           /\ labels' = code.labels
           /\ value_pointer' = code.value_pointer
           /\ status' = IF code.err = NoError THEN "repl" ELSE "repl error"
           /\ error' = code.err
    /\ UNCHANGED <<contents, current_position,
                   tokens, operand_stack, call_stack, output, result, last>>

LoaderNext == Load \/ LoadRepl

LoaderSpec == LoaderInit /\ [][LoaderNext]_vars

Loaded == status \in {"running", "error"}

Accepted == status = "running"

LabelsOf(toks) == {i \in DOMAIN toks : toks[i].kind = "Label"}

EndsOf(toks) == {i \in DOMAIN toks : toks[i].kind = "End"}

\* labels minus ends among the tokens a..b
Pending(toks, a, b) ==
    Cardinality({i \in LabelsOf(toks) : a <= i /\ i <= b})
    - Cardinality({i \in EndsOf(toks) : a <= i /\ i <= b})

\* every end among the tokens a..b closes a label among them, and none stays open
Balanced(toks, a, b) ==
    /\ Pending(toks, a, b) = 0
    /\ \A k \in a..b : Pending(toks, a, k) >= 0

Max(S) == CHOOSE x \in S : \A y \in S : y <= x

Min(S) == CHOOSE x \in S : \A y \in S : x <= y

\* the label that the end at j closes: the nearest one before it with only balanced
\* tokens in between; 0 when there is none
MatchOf(toks, j) ==
    LET opens == {i \in LabelsOf(toks) : i < j /\ Balanced(toks, i + 1, j - 1)}
    IN  IF opens = {} THEN 0 ELSE Max(opens)

\* the ends that close no label
StrayEnds(toks) == {j \in EndsOf(toks) : MatchOf(toks, j) = 0}

\* the ends that close a label whose name an earlier end has closed already
DuplicateEnds(toks) ==
    {j \in EndsOf(toks) \ StrayEnds(toks) :
        \E k \in EndsOf(toks) \ StrayEnds(toks) :
            k < j /\ toks[MatchOf(toks, k)].name = toks[MatchOf(toks, j)].name}

\* the labels that no end closes
OpenLabels(toks) ==
    {i \in LabelsOf(toks) : \A j \in EndsOf(toks) : MatchOf(toks, j) # i}

DistinctNames(toks) ==
    \A i, k \in LabelsOf(toks) : toks[i].name = toks[k].name => i = k

\* the ranges of two labels are disjoint, or one strictly contains the other
ProperlyNested(a, b) ==
    \/ a.end_pos < b.start_pos \/ b.end_pos < a.start_pos
    \/ a.start_pos < b.start_pos /\ b.end_pos < a.end_pos
    \/ b.start_pos < a.start_pos /\ a.end_pos < b.end_pos

\* C16: for every accepted token sequence the keys of the label table correspond
\* one-to-one to the Label values; every entry has start_index < end_index, the
\* value at start_index is the Label of that name and the value at end_index is End;
\* every End is the end_index of exactly one entry; any two label ranges are disjoint
\* or strictly nested.
C16_LabelTable ==
    Accepted =>
        /\ \A i \in LabelsOf(values) :
              /\ values[i].name \in DOMAIN labels
              /\ labels[values[i].name].start_pos = i - 1
        /\ Cardinality(DOMAIN labels) = Cardinality(LabelsOf(values))
        /\ \A name \in DOMAIN labels :
              /\ 0 <= labels[name].start_pos
              /\ labels[name].start_pos < labels[name].end_pos
              /\ labels[name].end_pos < Len(values)
              /\ values[labels[name].start_pos + 1].kind = "Label"
              /\ values[labels[name].start_pos + 1].name = name
              /\ values[labels[name].end_pos + 1].kind = "End"
        /\ \A j \in EndsOf(values) :
              Cardinality({name \in DOMAIN labels : labels[name].end_pos = j - 1}) = 1
        /\ \A a, b \in DOMAIN labels : a # b => ProperlyNested(labels[a], labels[b])

\* an accepted program with three labels, one inside another and one apart
C16_Witness ==
    /\ Accepted /\ Cardinality(DOMAIN labels) = 3
    /\ \E a, b \in DOMAIN labels :
          labels[a].start_pos < labels[b].start_pos /\ labels[b].end_pos < labels[a].end_pos
    /\ \E a, b \in DOMAIN labels : labels[a].end_pos < labels[b].start_pos

C18_EndWithoutLabel ==
    ( /\ Loaded /\ StrayEnds(tokens) # {}
      /\ \A j \in DuplicateEnds(tokens) : Min(StrayEnds(tokens)) < j )
        => error = ErrorNew("EndWithoutLabel", tokens[Min(StrayEnds(tokens))].pos)

\* a first stray End followed by another stray End and by a label left open
C18_Witness ==
    /\ Loaded /\ error.kind = "EndWithoutLabel"
    /\ Cardinality(StrayEnds(tokens)) >= 2
    /\ error.pos = tokens[Min(StrayEnds(tokens))].pos
    /\ OpenLabels(tokens) # {}

\* C19: when every token has been processed and labels are still pending, the
\* loader fails with NoEndOfLabel at the outermost remaining label, the pending
\* label that was opened first.
C19_NoEndOfLabelOutermost ==
    ( /\ Loaded /\ OpenLabels(tokens) # {}
      /\ StrayEnds(tokens) = {} /\ DuplicateEnds(tokens) = {} )
        => error = ErrorNew("NoEndOfLabel", tokens[Min(OpenLabels(tokens))].pos)

\* C20: when an End closes a label whose name is already in the label table, the
\* loader fails with DuplicateLabel at the label being closed (the first such End
\* that it meets); so no accepted program has two Label values of the same name.
C20_DuplicateLabel ==
    /\ ( /\ Loaded /\ DuplicateEnds(tokens) # {}
         /\ \A j \in StrayEnds(tokens) : Min(DuplicateEnds(tokens)) < j )
           => error = ErrorNew("DuplicateLabel",
                               tokens[MatchOf(tokens, Min(DuplicateEnds(tokens)))].pos)
    /\ Accepted => DistinctNames(values)

\* the label being closed holds the label of the same name that was closed first
C20_Witness ==
    /\ Loaded /\ error.kind = "DuplicateLabel"
    /\ tokens[1].kind = "Label" /\ error.pos = tokens[1].pos
    /\ tokens[2].kind = "Label" /\ tokens[2].name = tokens[1].name
    /\ tokens[3].kind = "End"

(***************************************************************************)
(* The initial state, the label skip and the run loop.                     *)
(***************************************************************************)
\* the VM has been built from an accepted program and has dispatched nothing yet
Initial == status = "running" /\ last.kind = "None"

\* C21: in the initial state of a VM built from an accepted program the pointer is
\* start_index(main) + 1, the operand stack is empty and the call stack holds one
\* frame, named main, with caller index 0 and a store without parent; so executing
\* main's End empties the call stack and the run is finished.
C21_InitialState ==
    /\ Initial =>
          /\ "main" \in DOMAIN labels
          /\ value_pointer = labels["main"].start_pos + 1
          /\ values[value_pointer].kind = "Label" /\ values[value_pointer].name = "main"
          /\ operand_stack = <<>>
          /\ output = <<>>
          /\ call_stack = <<[caller_position |-> 0, name |-> "main", parent |-> 0,
                             store |-> EmptyMap]>>
    /\ ( /\ Dispatched("End") /\ last.idx = labels["main"].end_pos
         /\ Len(last.before.call_stack) = 1 )
          => /\ error = NoError
             /\ call_stack = <<>>
             /\ value_pointer = 0
             /\ IsFinished(VmState)

\* main's End has run in a program where main is not the first label
C21_Witness ==
    /\ Dispatched("End") /\ last.idx = labels["main"].end_pos
    /\ Len(last.before.call_stack) = 1 /\ last.before.call_stack[1].name = "main"
    /\ labels["main"].start_pos > 0
    /\ call_stack = <<>> /\ status = "running"

ReplLoaded == status \in {"repl", "repl error"}

\* C22: Code::repl validates as Code::new does, main apart: it returns
\* EndWithoutLabel, DuplicateLabel or NoEndOfLabel exactly when Code::new returns
\* that error, and otherwise succeeds with value_pointer 0 and the values and label
\* table that Code::new builds.
C22_ReplValidatesAsNew ==
    ReplLoaded =>
        LET new == CodeNew(tokens)
        IN  IF new.err.kind \in {"EndWithoutLabel", "DuplicateLabel", "NoEndOfLabel"}
            THEN error = new.err
            ELSE /\ error = NoError
                 /\ value_pointer = 0
                 /\ values = new.values
                 /\ labels = new.labels

\* C23: dispatching a Label at index s skips the whole body of the label: afterwards
\* the pointer is end_index(label) + 1, the end being the one the label table gives,
\* with the operand stack and the call stack unchanged, nested labels or not.
C23_LabelSkipsBody ==
    Dispatched("Label") =>
        /\ error = NoError
        /\ value_pointer = labels[values[last.idx + 1].name].end_pos + 1
        /\ operand_stack = last.before.operand_stack
        /\ call_stack = last.before.call_stack

\* one step of the run loop, as the claim describes it
RunLoopStep ==
    /\ status = "running"
    /\ IF IsFinished(VmState)
       THEN /\ status' = "done" /\ result' = NoValue
            /\ VmState' = VmState /\ last' = last
       ELSE /\ last'.idx = value_pointer
            /\ last'.kind = values[value_pointer + 1].kind
            /\ last'.before = VmState
            /\ values[value_pointer + 1].kind \in {"Int", "Boolean", "String"}
                  => /\ value_pointer' = value_pointer + 1
                     /\ last'.returned = values[value_pointer + 1]
                     /\ error' = NoError
            /\ IF error' # NoError
               THEN status' \in {"error", "crashed"} /\ result' = NoValue
               ELSE IF last'.returned # NoValue /\ IsFinished(VmState')
               THEN status' = "done" /\ result' = last'.returned
               ELSE status' = "running" /\ result' = NoValue

\* C24: the run loop stops, returning no value, when it finds the pointer at or past
\* the end or the call stack empty before a dispatch; otherwise it fetches the value
\* at the pointer, advances the pointer by one and dispatches it, and returns the
\* value of that dispatch iff it produced one and the VM is finished right after it.
C24_RunLoop == [][RunLoopStep]_vars

\* a run has returned the value of its last dispatch
C24_Witness == status = "done" /\ result # NoValue /\ result = last.returned

\* s is an initial part of t
IsPrefix(s, t) == Len(s) <= Len(t) /\ SubSeq(t, 1, Len(s)) = s

\* the state in which run returns an error
ErrorReturned ==
    /\ status = "error" /\ result = NoValue
    /\ IsPrefix(last.before.output, output)
    /\ last.kind \in {"Print", "PrintNewLine"}
       /\ last.idx + 1 < Len(values)
       /\ values[last.idx + 2].kind \notin {"Print", "PrintNewLine"}
          => output = last.before.output

\* C31: the first error raised by a dispatch, at any depth of the evaluation of its
\* arguments, aborts the run: run returns it, no value is dispatched after it and
\* nothing is printed after it, while the output printed before it remains.
C31_FirstErrorAborts ==
    /\ [](error # NoError /\ status # "crashed" => ErrorReturned)
    /\ [][error = NoError]_vars

\* an error raised two levels below the dispatched instruction, after a line was printed
C31_Witness ==
    /\ status = "error" /\ output # <<>>
    /\ error.pos > values[last.idx + 1].pos

\* the operand stack with its two topmost values exchanged
SwapTop(stack) ==
    [k \in 1 .. Len(stack) |->
        IF k = Len(stack) THEN stack[Len(stack) - 1]
        ELSE IF k = Len(stack) - 1 THEN stack[Len(stack)]
        ELSE stack[k]]

\* Add is dispatched on a stack whose two topmost values are Ints
AddOfInts ==
    /\ last.kind = "Add"
    /\ Len(last.before.operand_stack) >= 2
    /\ Top(last.before.operand_stack).kind = "Int"
    /\ last.before.operand_stack[Len(last.before.operand_stack) - 1].kind = "Int"

\* C27: Int addition is commutative: add(a, b) and add(b, a) are the same Int a + b,
\* so that `push a push b add` and `push b push a add` yield the same result value.
C27_IntAddCommutes ==
    AddOfInts =>
        LET stack == last.before.operand_stack
            a   == stack[Len(stack) - 1]
            b   == Top(stack)
            pos == values[last.idx + 1].pos
        IN  /\ error = NoError
            /\ last.returned = IntValue(pos, a.n + b.n)
            /\ ValueAdd(a, b, pos) = ValueAdd(b, a, pos)
            /\ VmArith("Add", [last.before EXCEPT !.operand_stack = SwapTop(stack)], pos).res
                  = last.returned

\* two different Ints have been added
C27_Witness ==
    /\ AddOfInts /\ error = NoError
    /\ Top(last.before.operand_stack).n
          # last.before.operand_stack[Len(last.before.operand_stack) - 1].n
    /\ last.returned.kind = "Int"

\* Add, Sub, Mul or Div is dispatched, on a stack of at least two values, without error
ArithmeticDone ==
    /\ last.kind \in {"Add", "Sub", "Mul", "Div"}
    /\ Len(last.before.operand_stack) >= 2
    /\ error = NoError

\* C34: Add, Sub, Mul and Div pop exactly two values, apply the operation as (first
\* popped) op (second popped), return the result as the value of the instruction and
\* do not push it: the operand stack is then exactly two elements shorter, so that
\* `push a push b sub` yields b - a.
C34_ArithmeticPopsTwo ==
    ArithmeticDone =>
        LET stack  == last.before.operand_stack
            first  == stack[Len(stack)]
            second == stack[Len(stack) - 1]
            pos    == values[last.idx + 1].pos
        IN  /\ operand_stack = SubSeq(stack, 1, Len(stack) - 2)
            /\ last.returned = ValueArith(last.kind, first, second, pos).val
            /\ last.returned # NoValue
            /\ first.kind = "Int" /\ second.kind = "Int" =>
                  last.returned = IntValue(pos,
                      CASE last.kind = "Add" -> first.n + second.n
                        [] last.kind = "Sub" -> first.n - second.n
                        [] last.kind = "Mul" -> first.n * second.n
                        [] last.kind = "Div" -> TruncDiv(first.n, second.n))

\* `push 1 push 0 sub` has returned -1
C34_Witness ==
    /\ ArithmeticDone /\ last.kind = "Sub"
    /\ last.before.operand_stack[Len(last.before.operand_stack)].n = 0
    /\ last.before.operand_stack[Len(last.before.operand_stack) - 1].n = 1
    /\ last.returned.kind = "Int" /\ last.returned.n = -1
    /\ operand_stack = <<>>

\* the number of values that follow the value dispatched last
Following == Len(values) - (last.idx + 1)

\* the k-th value after the value dispatched last
Argument(k) == values[last.idx + 1 + k]

\* the values from the k-th after the value dispatched last evaluate to no value
IsNoneArgument(k) ==
    \/ Following >= k /\ Argument(k).kind \in {"Void", "Any"}
    \/ Following > k /\ Argument(k).kind = "Push"
          /\ Argument(k + 1).kind \in {"Int", "Boolean", "String"}

\* C35: an instruction that needs an argument when the pointer is at or past the end of
\* the values fails with ExpectedArgs(n) at the instruction, n being the number of its
\* arguments still missing (2 for an instruction of two arguments with none, 1 when
\* only the last is missing); an argument that evaluates to no value (Void, Any, an
\* instruction that returns none) makes Push, Print, Printn, Set and the comparisons
\* fail with ValueMismatch.
C35_MissingArguments ==
    LET pos == values[last.idx + 1].pos
        literal(v) == v.kind \in {"Int", "Boolean", "String"}
    IN  /\ last.kind \in OneArgument /\ Following = 0
              => status = "error" /\ error = ExpectedArgs(1, pos)
        /\ last.kind \in TwoArguments /\ Following = 0
              => status = "error" /\ error = ExpectedArgs(2, pos)
        /\ last.kind \in TwoArguments /\ Following = 1
           /\ (last.kind = "Set" \/ literal(Argument(1)))
              => status = "error" /\ error = ExpectedArgs(1, pos)
        /\ last.kind \in {"Push", "Print", "PrintNewLine"} /\ IsNoneArgument(1)
              => status = "error" /\ error = ValueMismatch("Any", "Void", Argument(1).pos)
        /\ last.kind = "Set" /\ Following >= 2 /\ IsNoneArgument(2)
              => status = "error" /\ error.kind = "ValueMismatch"
        /\ last.kind \in TwoArguments \ {"Set"} /\ IsNoneArgument(1)
              => status = "error" /\ error = ValueMismatch("Any", "Void", Argument(1).pos)
        /\ last.kind \in TwoArguments \ {"Set"} /\ Following >= 2 /\ literal(Argument(1))
           /\ IsNoneArgument(2)
              => status = "error" /\ error = ValueMismatch("Any", "Void", Argument(2).pos)

\* a comparison at the end of the values has failed for its two missing arguments
C35_Witness ==
    /\ last.kind = "LessThan" /\ Following = 0
    /\ status = "error" /\ error.kind = "ExpectedArgs" /\ error.n = 2

\* a comparison has failed for a second argument that is an instruction returning none
C35_WitnessMismatch ==
    /\ last.kind = "GreaterThan" /\ Following >= 3 /\ Argument(2).kind = "Push"
    /\ status = "error" /\ error.kind = "ValueMismatch" /\ error.pos = Argument(2).pos

\* the frames of a call stack, without their stores
FramesOf(stack) == [k \in DOMAIN stack |-> <<stack[k].name, stack[k].caller_position>>]

\* the number of arguments the instruction takes from the values
Arity(kind) ==
    IF kind \in TwoArguments THEN 2
    ELSE IF kind \in OneArgument \cup {"JumpIfTrue", "JumpIfFalse"} THEN 1
    ELSE 0

\* a value has been dispatched whose arguments are literals and identifiers
PlainDispatch ==
    /\ last.idx >= 0 /\ last.idx < Len(values) /\ last.kind = values[last.idx + 1].kind
    /\ last.before.call_stack # <<>>
    /\ \A k \in 1..Arity(last.kind) :
          k <= Following =>
              Argument(k).kind \in {"Int", "Float", "Boolean", "String", "Identifier"}

\* C36: only Call and End change the call stack: a successful Call makes it one frame
\* deeper, a successful End one frame less deep, and every other instruction (with
\* literals or identifiers for arguments) leaves the frames and their caller indices
\* as they are; likewise only Push, Pop, Add, Sub, Mul and Div change the operand stack.
C36_FrameEffect ==
    PlainDispatch =>
        LET before == last.before.call_stack
        IN  /\ last.kind = "Call" /\ error = NoError
                  => /\ Len(call_stack) = Len(before) + 1
                     /\ SubSeq(call_stack, 1, Len(before)) = before
            /\ last.kind = "End" /\ error = NoError
                  => call_stack = SubSeq(before, 1, Len(before) - 1)
            /\ last.kind \notin {"Call", "End"} => FramesOf(call_stack) = FramesOf(before)
            /\ last.kind \notin {"Push", "Pop", "Add", "Sub", "Mul", "Div"}
                  => operand_stack = last.before.operand_stack

\* a Call has been made from a frame other than main's, with values on the stack
C36_Witness ==
    /\ PlainDispatch /\ last.kind = "Call" /\ error = NoError
    /\ Len(call_stack) = 3

\* the program is accepted and has no Jmp, Rjmp, JmpT, JmpF and no Call
StraightProgram ==
    /\ CodeNew(tokens).err = NoError
    /\ \A i \in DOMAIN tokens :
          tokens[i].kind \notin {"Jump", "RelativeJump", "JumpIfTrue", "JumpIfFalse", "Call"}

\* run has returned, an error or a result, or has panicked
Terminated == status \in {"done", "error", "crashed"}

\* the state run has stopped in is an error state or a finished state
ErrorOrFinished == (status = "error" /\ error # NoError) \/ IsFinished(VmState)

\* a dispatch without error, other than of main's End, moves the pointer forward
Advances ==
    StraightProgram /\ last' # last /\ error' = NoError /\ last'.kind # "End"
        => value_pointer' > value_pointer

\* C37: every accepted program without Jmp, Rjmp, JmpT, JmpF and Call terminates: the
\* run reaches, after finitely many dispatches, an error or a finished state (pointer
\* at or past the end, or empty call stack), because every dispatch moves the pointer
\* forward until main's End pops the only frame.
C37_StraightProgramsTerminate ==
    /\ StraightProgram ~> Terminated
    /\ [](StraightProgram /\ Terminated => ErrorOrFinished)
    /\ [][Advances]_vars

\* a program without jumps and calls has run to main's End, which emptied the call stack
C37_Witness ==
    /\ StraightProgram /\ status = "done" /\ last.kind = "End"
    /\ call_stack = <<>> /\ last.idx >= 5

\* C38: whenever an Identifier is looked up or Set defines a variable, at the top level
\* or as an argument, the call stack is non-empty: no run unwraps the frame of an empty
\* call stack.
C38_FrameAtLookup == error.kind # "UnwrapNone"

\* C39: in every reachable state, the error state included, the pointer is within
\* 0 .. len(values).
C39_PointerInRange == value_pointer >= 0 /\ value_pointer <= Len(values)

\* a comparison is dispatched with two literals after it
CompareOfLiterals ==
    /\ last.kind \in Comparisons
    /\ last.idx + 2 < Len(values)
    /\ values[last.idx + 2].kind \in {"Int", "Boolean", "String"}
    /\ values[last.idx + 3].kind \in {"Int", "Boolean", "String"}

\* what the comparison op is to return for a left and a right operand of one kind
Compared(op, left, right) ==
    LET less(x, y) == IF left.kind = "Int" THEN x.n < y.n ELSE StrLess(x.s, y.s)
    IN  CASE op = "LessThan"         -> less(left, right)
          [] op = "LessThanEqual"    -> ~less(right, left)
          [] op = "GreaterThan"      -> less(right, left)
          [] op = "GreaterThanEqual" -> ~less(left, right)

StackValues == StoreValues \cup {BooleanValue(0, TRUE)}

StackInit ==
    /\ contents = <<>> /\ current_position = 0
    /\ tokens = <<>> /\ values = <<>> /\ labels = EmptyMap
    /\ value_pointer = 0 /\ operand_stack = <<>> /\ output = <<>>
    /\ call_stack = <<>>
    /\ status = "stack" /\ error = NoError /\ result = NoValue
    /\ last = NoDispatch(VmState)

\* stack.push(value)
StackPushStep ==
    /\ Len(operand_stack) < MaxStack
    /\ \E v \in StackValues :
          /\ operand_stack' = StackPush(operand_stack, v)
          /\ last' = [idx |-> 0, kind |-> "push", before |-> VmState, returned |-> v]
    /\ error' = NoError
    /\ UNCHANGED <<contents, current_position,
                   tokens, values, labels, value_pointer, call_stack, output, status, result>>

\* stack.pop(pos)
StackPopStep ==
    /\ \E pos \in StorePositions :
          LET p == StackPop(operand_stack, pos)
          IN  /\ operand_stack' = p.stack
              /\ error' = p.err
              /\ last' = [idx |-> pos, kind |-> "pop", before |-> VmState,
                          returned |-> IF p.err = NoError THEN operand_stack[p.idx] ELSE NoValue]
    /\ UNCHANGED <<contents, current_position,
                   tokens, values, labels, value_pointer, call_stack, output, status, result>>

\* stack.peek() and stack.peek_mut()
StackPeekStep ==
    /\ LET i == StackPeek(operand_stack)
       IN  last' = [idx |-> i, kind |-> "peek", before |-> VmState,
                    returned |-> IF i = 0 THEN NoValue ELSE operand_stack[i]]
    /\ error' = NoError
    /\ UNCHANGED <<contents, current_position,
                   tokens, values, labels, value_pointer, operand_stack, call_stack, output,
                   status, result>>

StackNext == StackPushStep \/ StackPopStep \/ StackPeekStep

StackSpec == StackInit /\ [][StackNext]_vars

\* C25: the Stack is a LIFO: pop returns and removes the most recently pushed element
\* not yet popped; pop on an empty stack returns EmptyStack at the position given and
\* leaves the stack empty; peek returns none iff the stack is empty, never changes
\* the stack, and otherwise designates exactly the element the next pop would return.
C25_StackLifo ==
    /\ last.kind = "push" =>
          /\ operand_stack = Append(last.before.operand_stack, last.returned)
          /\ StackPop(operand_stack, 0).idx = Len(operand_stack)
    /\ last.kind = "pop" =>
          IF last.before.operand_stack = <<>>
          THEN /\ error = ErrorNew("EmptyStack", last.idx)
               /\ operand_stack = <<>>
          ELSE /\ error = NoError
               /\ last.returned = Top(last.before.operand_stack)
               /\ operand_stack = Front(last.before.operand_stack)
    /\ last.kind = "peek" =>
          /\ operand_stack = last.before.operand_stack
          /\ (last.returned = NoValue) <=> (operand_stack = <<>>)
          /\ operand_stack # <<>> =>
                /\ last.idx = StackPop(operand_stack, 0).idx
                /\ last.returned = Top(operand_stack)

(***************************************************************************)
(* The operations of Value on their own (values/value.rs): two values are  *)
(* drawn, kept in operand_stack as <<self, other>>, and an operation is    *)
(* applied to them; `last` holds the operation and what it returned.       *)
(***************************************************************************)
ValueInts == {IntValue(0, n) : n \in {-2, -1, 0, 1, 2}}

\* 0.0, 0.5, 1.0, 2.0, 2^-60 and their negatives
ValueFloats ==
    {FloatValue(0, n, e) : n \in {-1, 1}, e \in {-60, -1, 0, 1}} \cup {FloatValue(0, 0, 0)}

ValueStrings == {StringValue(0, s) : s \in {<<>>, <<"a">>, <<"b">>, <<"a", "b">>}}

ValueOthers ==
    {BooleanValue(0, TRUE), BooleanValue(0, FALSE), VoidValue(0),
     ValueNew(0, "Any", 0, FALSE, <<>>, ""), ValueNew(0, "Identifier", 0, FALSE, <<>>, "x"),
     ValueNew(0, "Push", 0, FALSE, <<>>, ""), ValueNew(0, "End", 0, FALSE, <<>>, "")}

ValueUniverse == ValueInts \cup ValueFloats \cup ValueStrings \cup ValueOthers

ValueOps ==
    {"Add", "Sub", "Mul", "Div", "LessThan", "LessThanEqual", "GreaterThan",
     "GreaterThanEqual", "Equal", "NotEqual"}

\* the printed form of the value is within the digits ShowFloat writes exactly
Printable(v) == v.kind = "Float" => v.e >= -13

ValueInit ==
    /\ contents = <<>> /\ current_position = 0
    /\ tokens = <<>> /\ values = <<>> /\ labels = EmptyMap
    /\ value_pointer = 0 /\ output = <<>> /\ call_stack = <<>>
    /\ \E self \in ValueUniverse, other \in ValueUniverse : operand_stack = <<self, other>>
    /\ status = "value" /\ error = NoError /\ result = NoValue
    /\ last = NoDispatch(VmState)

\* self.add(other, pos), self.sub(other, pos), ...
ValueApply ==
    /\ \E op \in ValueOps, pos \in StorePositions :
          LET self  == operand_stack[1]
              other == operand_stack[2]
              r == CASE op \in {"Add", "Sub", "Mul", "Div"} -> ValueArith(op, self, other, pos)
                     [] op = "Equal"    -> ValOk(ValueEqual(self, other, pos))
                     [] op = "NotEqual" -> ValOk(ValueNotEqual(self, other, pos))
                     [] OTHER           -> ValueCompare(op, self, other, pos)
          IN  /\ op = "Add" /\ "String" \in {self.kind, other.kind}
                    => Printable(self) /\ Printable(other)
              /\ last' = [idx |-> pos, kind |-> op, before |-> VmState, returned |-> r.val]
              /\ error' = r.err
    /\ UNCHANGED <<contents, current_position,
                   tokens, values, labels, value_pointer, operand_stack, call_stack, output,
                   status, result>>

ValueNext == ValueApply

ValueSpec == ValueInit /\ [][ValueNext]_vars

Self == operand_stack[1]

Other == operand_stack[2]

Applied(op) == status = "value" /\ last.kind = op

\* the two operands are of one kind among Int, Boolean and String, and hold the same
SamePayload(a, b) ==
    /\ a.kind = b.kind /\ a.kind \in {"Int", "Boolean", "String"}
    /\ a.n = b.n /\ a.b = b.b /\ a.s = b.s

C28_ValueAdd ==
    Applied("Add") =>
        LET l == Self
            r == Other
            pos == last.idx
            Numbers == {"Int", "Float"}
        IN  /\ CASE l.kind = "String" /\ r.kind = "String"
                      -> error = NoError /\ last.returned = StringValue(pos, l.s \o r.s)
                  [] l.kind \notin {"String", "Void"} /\ r.kind = "String"
                      -> error = NoError /\ last.returned = StringValue(pos, Show(l) \o r.s)
                  [] l.kind = "String" /\ r.kind \notin {"String", "Void"}
                      -> error = NoError /\ last.returned = StringValue(pos, l.s \o Show(r))
                  [] l.kind = "Int" /\ r.kind = "Int"
                      -> error = NoError /\ last.returned = IntValue(pos, l.n + r.n)
                  [] l.kind \in Numbers /\ r.kind \in Numbers
                      -> error = NoError /\ last.returned.kind = "Float"
                  [] OTHER
                      -> /\ error = ErrorNew("UnsupportedOperation", pos)
                         /\ last.returned = NoValue
            /\ l.s = <<"a">> /\ r.s = <<"b">> => last.returned.s = <<"a", "b">>
            /\ l.s = <<"a">> /\ r = IntValue(0, 1) => last.returned.s = <<"a", "1">>
            /\ l = IntValue(0, -2) /\ r.s = <<"a">> => last.returned.s = <<"-", "2", "a">>
            /\ l = BooleanValue(0, TRUE) /\ r.s = <<"b">>
                  => last.returned.s = <<"t", "r", "u", "e", "b">>
            /\ l = FloatValue(0, 1, -1) /\ r.kind = "String" /\ r.s = <<>>
                  => last.returned.s = <<"0", ".", "5">>
            /\ l.kind = "Boolean" /\ r.kind \in {"Boolean", "Int"}
                  => error.kind = "UnsupportedOperation"
            /\ "Void" \in {l.kind, r.kind} => error.kind = "UnsupportedOperation"

\* a String and an Int have been added
C28_Witness ==
    /\ Applied("Add") /\ Self = StringValue(0, <<"a">>) /\ Other = IntValue(0, 1)
    /\ last.returned.kind = "String" /\ last.returned.s = <<"a", "1">>

\* add has refused a Void and a String
C28_WitnessUnsupported ==
    /\ Applied("Add") /\ Self.kind = "Void" /\ Other.kind = "String"
    /\ error.kind = "UnsupportedOperation"

\* the value is the Int 0 or a Float of a magnitude below epsilon
IsZero(v) ==
    IF v.kind = "Int" THEN v.n = 0 ELSE FloatLess(FloatAbs(v), Epsilon)

\* div has been applied to two numbers
DivOfNumbers ==
    Applied("Div") /\ Self.kind \in {"Int", "Float"} /\ Other.kind \in {"Int", "Float"}

\* C30: Value div gives DivisionByZero exactly when the right operand, the divisor, is
\* zero, for every combination of Int and Float operands: an Int divisor 0 and a Float
\* divisor of a magnitude below epsilon are errors whatever the left operand, and no
\* other divisor (a negative one included) and no dividend causes DivisionByZero.
C30_DivisionByZero ==
    DivOfNumbers => (error.kind = "DivisionByZero" <=> IsZero(Other))

\* div of two Ints, and of two Floats with a positive divisor, errs exactly on zero
C30_IntAndPositiveFloatDivisor ==
    /\ DivOfNumbers /\ Self.kind = "Int" /\ Other.kind = "Int"
          => (error.kind = "DivisionByZero" <=> Other.n = 0)
    /\ DivOfNumbers /\ Other.kind = "Float" /\ Other.n >= 0
          => (error.kind = "DivisionByZero" <=> IsZero(Other))

(***************************************************************************)
(* The Lexer (lexer.rs).  A text is a sequence of characters; the lexer's  *)
(* current_position is the number of characters it has taken, so that the  *)
(* next character of the iterator is text[current_position + 1].  A token  *)
(* lexed from a text keeps the characters of its name as a sequence.       *)
(***************************************************************************)
\* the longest text of the bounded family
MaxText == 4

Whitespace == {" ", "\t", "\n", "\r", "\f"}

Digits == {"0", "1", "2", "3", "4", "5", "6", "7", "8", "9"}

UpperCase == <<"A","B","C","D","E","F","G","H","I","J","K","L","M",
               "N","O","P","Q","R","S","T","U","V","W","X","Y","Z">>

LowerCase == <<"a","b","c","d","e","f","g","h","i","j","k","l","m",
               "n","o","p","q","r","s","t","u","v","w","x","y","z">>

\* char::is_ascii_alphabetic
IsAlphabetic(ch) == \E i \in 1..26 : ch = UpperCase[i] \/ ch = LowerCase[i]

\* str::to_ascii_lowercase
ToLowerCase(word) ==
    [k \in 1..Len(word) |->
        IF \E i \in 1..26 : word[k] = UpperCase[i]
        THEN LowerCase[CHOOSE i \in 1..26 : word[k] = UpperCase[i]]
        ELSE word[k]]

\* the words of make_word and of TokenKind::is_instruction, with their token kinds
Keywords ==
    { <<"Void", <<"v","o","i","d">> >>, <<"Any", <<"a","n","y">> >>,
      <<"End", <<"e","n","d">> >>,
      <<"Push", <<"p","u","s","h">> >>, <<"Pop", <<"p","o","p">> >>,
      <<"Peek", <<"p","e","e","k">> >>, <<"Add", <<"a","d","d">> >>,
      <<"Sub", <<"s","u","b">> >>, <<"Mul", <<"m","u","l">> >>,
      <<"Div", <<"d","i","v">> >>, <<"Mod", <<"m","o","d">> >>,
      <<"LessThan", <<"l","t">> >>, <<"LessThanEqual", <<"l","t","e">> >>,
      <<"GreaterThan", <<"g","t">> >>, <<"GreaterThanEqual", <<"g","t","e">> >>,
      <<"Equal", <<"e","q">> >>, <<"NotEqual", <<"n","e","q">> >>,
      <<"Jump", <<"j","m","p">> >>, <<"RelativeJump", <<"r","j","m","p">> >>,
      <<"JumpIfTrue", <<"j","m","p","t">> >>, <<"JumpIfFalse", <<"j","m","p","f">> >>,
      <<"RelativeJumpIfTrue", <<"r","j","m","p","t">> >>,
      <<"RelativeJumpIfFalse", <<"r","j","m","p","f">> >>,
      <<"Print", <<"p","r","i","n","t">> >>, <<"PrintNewLine", <<"p","r","i","n","t","n">> >> ,
      <<"Set", <<"s","e","t">> >>, <<"Call", <<"c","a","l","l">> >> }

\* Token::new(kind, pos)
TokenAt(token, pos) == [token EXCEPT !.pos = pos]

\* what a lexing function returns: the token or the error, and the position reached
LexOk(token, pos) == [token |-> token, err |-> NoError, pos |-> pos]

LexErr(err, pos) == [token |-> Word("None"), err |-> err, pos |-> pos]

\* the value of a sequence of decimal digits
RECURSIVE DigitsValue(_)
DigitsValue(digits) ==
    IF digits = <<>> THEN 0
    ELSE 10 * DigitsValue(SubSeq(digits, 1, Len(digits) - 1))
         + (CHOOSE d \in 0..9 : Digit(d) = digits[Len(digits)])

\* make_number, the loop: the position after the digits and at most one decimal point
RECURSIVE NumberEnd(_, _, _)
NumberEnd(text, pos, has_decimal_point) ==
    IF pos >= Len(text) THEN [pos |-> pos, has_decimal_point |-> has_decimal_point]
    ELSE IF text[pos + 1] \in Digits THEN NumberEnd(text, pos + 1, has_decimal_point)
    ELSE IF text[pos + 1] = "." /\ ~has_decimal_point THEN NumberEnd(text, pos + 1, TRUE)
    ELSE [pos |-> pos, has_decimal_point |-> has_decimal_point]

\* str::parse of the characters of a number without a decimal point: an optional sign
\* and at least one digit (the texts are far too short to overflow an i64)
ParseInt(number) ==
    LET body == IF number[1] = "-" THEN Tail(number) ELSE number
    IN  IF body = <<>> THEN [ok |-> FALSE, n |-> 0]
        ELSE [ok |-> TRUE,
              n |-> IF number[1] = "-" THEN -DigitsValue(body) ELSE DigitsValue(body)]

\* str::parse of the characters of a number with a decimal point: an optional sign and
\* at least one digit before or after the point; the f64 nearest to the decimal
ParseFloat(number, pos) ==
    LET body  == IF number[1] = "-" THEN Tail(number) ELSE number
        point == CHOOSE i \in 1..Len(body) : body[i] = "."
        whole == SubSeq(body, 1, point - 1)
        frac  == SubSeq(body, point + 1, Len(body))
        units == DigitsValue(whole \o frac)
        value == FloatDiv(FloatValue(pos, IF number[1] = "-" THEN -units ELSE units, 0),
                          FloatValue(pos, 10^Len(frac), 0), pos)
    IN  IF whole \o frac = <<>> THEN [ok |-> FALSE, value |-> NoValue]
        ELSE [ok |-> TRUE, value |-> value]

\* Lexer::make_number; the first character, a digit or `-`, is text[pos]
MakeNumber(text, pos) ==
    LET end    == NumberEnd(text, pos, FALSE)
        number == SubSeq(text, pos, end.pos)
    IN  IF ~end.has_decimal_point
        THEN IF ParseInt(number).ok
             THEN LexOk(TokenAt(TInt(ParseInt(number).n), pos), end.pos)
             ELSE LexErr(ErrorNew("InvalidNumberFormat", end.pos), end.pos)
        ELSE IF ParseFloat(number, pos).ok
             THEN LexOk([ParseFloat(number, pos).value EXCEPT !.kind = "FloatLiteral"], end.pos)
             ELSE LexErr(ErrorNew("InvalidNumberFormat", end.pos), end.pos)

\* make_word, the loop: the last character of the word, and the position reached,
\* which is past the whitespace that ends the word
RECURSIVE WordEnd(_, _)
WordEnd(text, pos) ==
    IF pos >= Len(text) THEN [last |-> pos, pos |-> pos]
    ELSE IF text[pos + 1] \in Whitespace THEN [last |-> pos, pos |-> pos + 1]
    ELSE WordEnd(text, pos + 1)

\* Lexer::make_word; the first letter is text[pos]
MakeWord(text, pos) ==
    LET end   == WordEnd(text, pos)
        word  == SubSeq(text, pos, end.last)
        lower == ToLowerCase(word)
    IN  LexOk(TokenAt(
            CASE lower = <<"t","r","u","e">>     -> TBool(TRUE)
              [] lower = <<"f","a","l","s","e">> -> TBool(FALSE)
              [] \E k \in Keywords : k[2] = lower
                    -> Word((CHOOSE k \in Keywords : k[2] = lower)[1])
              [] OTHER -> [Word("Identifier") EXCEPT !.name = word], pos), end.pos)

\* make_string with a loop that takes either quote as the end of the string
RECURSIVE StringEndAnyQuote(_, _, _)
StringEndAnyQuote(text, pos, beginning_of_string) ==
    IF pos >= Len(text) THEN 0
    ELSE IF text[pos + 1] \in {"'", "\""} THEN pos + 1
    ELSE StringEndAnyQuote(text, pos + 1, beginning_of_string)

\* make_string, the loop: the position of the closing quote, 0 if there is none
RECURSIVE StringEnd(_, _, _)
StringEnd(text, pos, beginning_of_string) ==
    IF pos >= Len(text) THEN 0
    ELSE IF text[pos + 1] = beginning_of_string THEN pos + 1
    ELSE StringEnd(text, pos + 1, beginning_of_string)

\* Lexer::make_string; the opening quote is text[pos]
MakeString(text, pos) ==
    LET end == StringEnd(text, pos, text[pos])
    IN  IF end = 0 THEN LexErr(ErrorNew("UnterminatedString", pos), Len(text))
        ELSE LexOk(TokenAt(TStr(SubSeq(text, pos + 1, end - 1)), pos), end)

\* make_label, the loop: the position of the last character of the name
RECURSIVE LabelEnd(_, _)
LabelEnd(text, pos) ==
    IF pos >= Len(text) \/ text[pos + 1] \in Whitespace \cup Digits THEN pos
    ELSE LabelEnd(text, pos + 1)

\* Lexer::make_label; the `@` is text[pos]
MakeLabel(text, pos) ==
    LET end == LabelEnd(text, pos)
    IN  IF end = pos THEN LexErr(ErrorNew("InvalidLabelName", pos), pos)
        ELSE LexOk(TokenAt([Word("Label") EXCEPT !.name = SubSeq(text, pos + 1, end)], pos), end)

\* Lexer::handle_single_line_comments, the loop: the position after the line
RECURSIVE SingleLineEnd(_, _)
SingleLineEnd(text, pos) ==
    IF pos >= Len(text) THEN pos
    ELSE IF text[pos + 1] = "\n" THEN pos + 1
    ELSE SingleLineEnd(text, pos + 1)

\* Lexer::handle_multi_line_comments, the loop: the position after the closing `!-`
RECURSIVE MultiLineEnd(_, _)
MultiLineEnd(text, pos) ==
    IF pos >= Len(text) THEN pos
    ELSE IF text[pos + 1] = "!" /\ pos + 1 < Len(text) /\ text[pos + 2] = "-" THEN pos + 2
    ELSE MultiLineEnd(text, pos + 1)

\* Lexer::handle_comments; ch is text[pos]
HandleComments(text, pos) ==
    IF text[pos] = "-" /\ pos < Len(text) /\ text[pos + 1] = "-"
    THEN [found |-> TRUE, pos |-> SingleLineEnd(text, pos + 1)]
    ELSE IF text[pos] = "-" /\ pos < Len(text) /\ text[pos + 1] = "!"
    THEN [found |-> TRUE, pos |-> MultiLineEnd(text, pos + 1)]
    ELSE [found |-> FALSE, pos |-> pos]

\* Lexer::lex, the loop, from the position pos with the tokens lexed so far
RECURSIVE LexFrom(_, _, _)
LexFrom(text, pos, lexed) ==
    IF pos >= Len(text) THEN [tokens |-> lexed, err |-> NoError, pos |-> pos]
    ELSE LET ch == text[pos + 1]
             r  == CASE ch \in Digits \cup {"-"} -> MakeNumber(text, pos + 1)
                     [] ch \in {"'", "\""}       -> MakeString(text, pos + 1)
                     [] ch = "@"                 -> MakeLabel(text, pos + 1)
                     [] IsAlphabetic(ch)         -> MakeWord(text, pos + 1)
                     [] OTHER -> LexErr(ErrorNew("UnknownCharacter", pos + 1), pos + 1)
         IN  IF ch \in Whitespace THEN LexFrom(text, pos + 1, lexed)
             ELSE IF HandleComments(text, pos + 1).found
             THEN LexFrom(text, HandleComments(text, pos + 1).pos, lexed)
             ELSE IF r.err # NoError THEN [tokens |-> <<>>, err |-> r.err, pos |-> r.pos]
             ELSE LexFrom(text, r.pos, Append(lexed, r.token))

\* Lexer::new().lex(contents)
LexerLex(text) == LexFrom(text, 0, <<>>)

\* the characters of the bounded texts
LexerChars == {"-", "!", "1", "'", "\"", "a", " ", "\n"}

\* every text of at most k characters
RECURSIVE Texts(_)
Texts(k) ==
    IF k = 0 THEN {<<>>}
    ELSE LET shorter == Texts(k - 1)
         IN  shorter \cup {Append(text, ch) : text \in shorter, ch \in LexerChars}

\* texts with words, labels and numbers with a decimal point
LexerScenarios ==
    { <<"p","u","s","h"," ","1">>, <<"P","u","S","h"," ","'","a","'">>,
      <<"@","m","a","i","n","\n","e","n","d">>, <<"@","1">>, <<"t","r","u","e">>,
      <<"F","A","L","S","E"," ","v","o","i","d">>, <<"x"," ","-","!","a","!","-","1">>,
      <<"1",".","5">>, <<"-","1",".">>, <<"-",".">>, <<"1",".","2","5",".">>, <<"#">> }

LexerInit ==
    /\ contents \in Texts(MaxText) \cup LexerScenarios
    /\ current_position = 0
    /\ tokens = <<>> /\ values = <<>> /\ labels = EmptyMap
    /\ value_pointer = 0 /\ operand_stack = <<>> /\ call_stack = <<>> /\ output = <<>>
    /\ status = "unlexed" /\ error = NoError /\ result = NoValue
    /\ last = NoDispatch(VmState)

\* Lexer::new().lex(contents)
Lex ==
    /\ status = "unlexed"
    /\ LET lexed == LexerLex(contents)
       IN  /\ tokens' = lexed.tokens
           /\ error' = lexed.err
           /\ current_position' = lexed.pos
           /\ status' = IF lexed.err = NoError THEN "lexed" ELSE "error"
    /\ UNCHANGED <<contents, values, labels, value_pointer, operand_stack, call_stack,
                   output, result, last>>

LexerNext == Lex

LexerSpec == LexerInit /\ [][LexerNext]_vars

\* the character at p is a quote that opens a string: only whitespace and digits
\* come before it
OpensString(p) ==
    /\ p \in 1..Len(contents) /\ contents[p] \in {"'", "\""}
    /\ \A k \in 1..(p - 1) : contents[k] \in Whitespace \cup Digits

\* the positions after p of the quote that is at p
Closings(p) == {k \in (p + 1)..Len(contents) : contents[k] = contents[p]}

\* C32: lexing a text in which a quote, ' or ", opens a string that has no closing
\* quote of the same kind before the end of the text fails with UnterminatedString at
\* the 1-based offset of the opening quote; a quote of the other kind inside the string
\* does not end it.
C32_UnterminatedString ==
    status # "unlexed" =>
        \A p \in 1..Len(contents) :
            OpensString(p) =>
                IF Closings(p) = {}
                THEN status = "error" /\ error = ErrorNew("UnterminatedString", p)
                ELSE LET close == CHOOSE k \in Closings(p) : \A j \in Closings(p) : k <= j
                     IN  /\ error.kind = "UnterminatedString" => error.pos > close
                         /\ status = "lexed" =>
                              \E i \in 1..Len(tokens) :
                                  tokens[i] = TokenAt(TStr(SubSeq(contents, p + 1, close - 1)), p)

\* a string opened by ' at offset 2 holds a " and is not closed
C32_Witness ==
    /\ status = "error" /\ contents = <<" ", "'", "\"", "a">>
    /\ error = ErrorNew("UnterminatedString", 2)

\* a string that holds a quote of the other kind has been lexed
C32_WitnessClosed ==
    /\ status = "lexed" /\ contents = <<"'", "\"", "a", "'">>
    /\ tokens = <<TokenAt(TStr(<<"\"", "a">>), 1)>>

\* the character at p is a `-` at which the lexer looks for a token: only whitespace
\* and digits come before it
MinusStarts(p) ==
    /\ p \in 1..Len(contents) /\ contents[p] = "-"
    /\ \A k \in 1..(p - 1) : contents[k] \in Whitespace \cup Digits

\* the first `-` of the text, when it starts a token
FirstMinus == CHOOSE p \in 1..Len(contents) : MinusStarts(p)

\* `--` and `-!` start comments and `-` before a digit starts a negative number
MinusBeforeKnown(p) ==
    LET next == contents[p + 1]
    IN  /\ next \in {"-", "!"} => error.pos # p
        /\ next = "-" /\ (\A k \in (p + 2)..Len(contents) : contents[k] # "\n")
              => status = "lexed" /\ \A i \in 1..Len(tokens) : tokens[i].pos < p
        /\ next = "!" /\ (\A k \in (p + 2)..Len(contents) : contents[k] # "!")
              => status = "lexed" /\ \A i \in 1..Len(tokens) : tokens[i].pos < p
        /\ next \in Digits =>
              /\ error.pos # p
              /\ status = "lexed" =>
                    \E i \in 1..Len(tokens) :
                        /\ tokens[i].pos = p /\ tokens[i].n <= 0
                        /\ tokens[i].kind \in {"IntegerLiteral", "FloatLiteral"}

\* C33: the lexer at a `-`: `--` starts a line comment, `-!` a block comment, `-` before
\* a digit a negative number, and a `-` before anything else, or at the end of the
\* text, fails with UnknownCharacter at the position of the `-`.
C33_MinusDisambiguation ==
    status # "unlexed" /\ (\E p \in 1..Len(contents) : MinusStarts(p)) =>
        LET p == FirstMinus
        IN  IF p < Len(contents) /\ contents[p + 1] \in {"-", "!"} \cup Digits
            THEN MinusBeforeKnown(p)
            ELSE status = "error" /\ error = ErrorNew("UnknownCharacter", p)

\* the three known continuations of `-` are lexed as claimed, and a `-` before anything
\* else is an InvalidNumberFormat, at the `-` or at the decimal point that follows it
C33_KnownContinuations ==
    status # "unlexed" /\ (\E p \in 1..Len(contents) : MinusStarts(p)) =>
        LET p == FirstMinus
        IN  IF p < Len(contents) /\ contents[p + 1] \in {"-", "!"} \cup Digits
            THEN MinusBeforeKnown(p)
            ELSE /\ status = "error" /\ error.kind = "InvalidNumberFormat"
                 /\ error.pos = IF p < Len(contents) /\ contents[p + 1] = "." THEN p + 1 ELSE p

============================================================================
